---- MODULE Spec2Model ----
(***************************************************************************)
(* A model of the port-visit part of the anchorages pipeline.              *)
(*                                                                         *)
(* Three entry points are modelled, one per value of `pipeline`:           *)
(*   "anchorages.port_visits"  the in/out event finder of                  *)
(*                             src/anchorages/port_visits.py               *)
(*   "port_events"             the daily port-event batches of             *)
(*                             src/pipe_anchorages/port_events_pipeline.py *)
(*   "port_visits"             the visit grouper that turns port events    *)
(*                             into PortVisit rows                         *)
(*                                                                         *)
(* Time is counted in ticks; a tick is at least the five minutes that      *)
(* thinning leaves between two records, and OneDay ticks make a date.      *)
(* Distances are in units of 0.1 km, speeds in units of 0.1 knot.          *)
(***************************************************************************)
EXTENDS Integers, Sequences, FiniteSets, TLC

VARIABLES
    pipeline,       \* which entry point runs
    start_date,     \* --start-date, a date (day number)
    end_date,       \* --end-date, a date (day number)
    state,          \* find_in_out_events: None, AT_SEA or IN_PORT
    current_port,   \* find_in_out_events: the port of the last in-port record
    events,         \* the events the run in progress outputs
    records,        \* find_in_out_events: the records handled so far (history)
    rcd,            \* the record the loop handled last (NoRecord before the first)
    prev,           \* [state, current_port] before that record (history)
    emitted,        \* the events that record produced (history)
    pc,             \* port_events: where the daily run is (idle, running, done)
    vs,             \* port_events: the vessel's visit state in the running batch
    nrec,           \* port_events: the number of records read so far
    stateTable,     \* port_events: the date-sharded state table
    eventTable,     \* port_events: the date-sharded event table
    stream,         \* port_events: every event the state machine emitted (history)
    ref_start,      \* the first date of the reference run over several days
    ref,            \* the visit state of the reference run
    ref_out,        \* the events the reference run outputs
    visits,         \* port_visits: the PortVisits of the vessel
    track,          \* remove_stationary_periods: the records read so far (history)
    without_stationary_periods, \* remove_stationary_periods: the output trajectory
    stationary_periods,         \* remove_stationary_periods: the periods emitted
    current_period, \* remove_stationary_periods: the candidate period
    candidates,     \* remove_stationary_periods: the candidates closed (history)
    exhausted,      \* remove_stationary_periods: whether the loop has ended
    path_stage,     \* CreateTaggedPaths: the last step of expand that ran
    grouped,        \* CreateTaggedPaths: a vessel's records as grouped by key
    ordered,        \* CreateTaggedPaths: the records after order_by_timestamp
    deduped,        \* CreateTaggedPaths: the records after dedup_by_timestamp
    thinned,        \* CreateTaggedPaths: the records after thin_records
    tag_input,      \* tag_with_destination_and_id: the records read so far (history)
    dest,           \* tag_with_destination_and_id: the running destination
    new_records,    \* tag_with_destination_and_id: the tagged records (new)
    last_s2id,      \* tag_with_destination_and_id: what the next cell is compared to
    cell_stage,     \* find_anchorage_points: the last step that ran for the cell
    stationary_periods_by_s2id, \* find_anchorage_points: the cell's (md, sp) entries
    active_points_by_s2id,      \* find_anchorage_points: the cell's (md, loc) entries
    anchorage_points,           \* find_anchorage_points: the cell's AnchoragePoints
    aggregate_stage, \* AnchoragePts_from_cell_visits: the last step that ran for the cell
    cell_visits, \* AnchoragePts_from_cell_visits: the cell's entries as produced upstream
    value, \* AnchoragePts_from_cell_visits: the entries as CoGroupByKey delivers them
    dict_order, \* AnchoragePts_from_cell_visits: how the interpreter's dict orders the Counter's keys
    aggregated, \* AnchoragePts_from_cell_visits: the AnchoragePoints returned
    anchorage_pts, \* tag_apts_with_nbr_s2ids: the anchorage points tagged so far
    tagged_apts, \* tag_apts_with_nbr_s2ids: the (cell, anchorage point) entries output
    msg, \* VesselRecord.tagged_from_msg: the message read last
    tagged_record, \* VesselRecord.tagged_from_msg: the (ident, record) returned for it
    carry_pc, \* run: the initial states: where the run is (start, read)
    state_table, \* run: the initial states: the partitions of the state table by date
    run_start_date, \* run: the initial states: the start_date of the run
    initial_states_pc, \* run: the initial states: the initial_states the run builds
    warnings, \* run: the initial states: the warnings the run has logged
    tables_read, \* run: the initial states: the dates of the state partitions the run reads (history)
    sink_pc, \* EventSink and EventStateSink: where the task is (running, done, failed)
    try_number, \* EventSink and EventStateSink: the attempt of the task that runs
    batch_end_date, \* EventSink and EventStateSink: the end_date of the batch
    batch_events, \* EventSink and EventStateSink: the events the batch outputs
    batch_states, \* EventSink and EventStateSink: the states the batch outputs
    event_shards, \* EventSink and EventStateSink: the date shards of the event table
    state_shards, \* EventSink and EventStateSink: the date shards of the state table
    loaded, \* EventSink and EventStateSink: the shards the attempt has loaded
    load_count, \* EventSink and EventStateSink: the number of loads of every shard (history)
    exit_try, \* port_events: run and __main__: the attempt of the task that runs
    job_states, \* port_events: run and __main__: the state of the pipeline job of every attempt
    exit_statuses, \* port_events: run and __main__: the exit status of the process of every attempt
    dag_runs, \* port_events_dag: the number of daily runs created
    task_instances, \* port_events_dag: state and try number of each task of each run
    carry_over, \* port_events_dag: what create-port-events of each run found as initial states
    input_partitions, \* port_events_dag: the dates whose input table exists
    state_partitions, \* port_events_dag: the dates whose state partition is written
    port_input_data, \* anchorages.port_visits: the anchorage lookup: the anchorages read from anchorage_path
    port_data, \* anchorages.port_visits: the anchorage lookup: the anchorage map: one anchorage for a coarse cell
    tagged_path, \* anchorages.port_visits: the anchorage lookup: the s2ids and the records of the tagged path
    lookup_pc, \* anchorages.port_visits: the anchorage lookup: the step of the run
    lookups, \* anchorages.port_visits: the anchorage lookup: port and dist found for each record
    lookup_events, \* anchorages.port_visits: the anchorage lookup: the events of find_in_out_events
    query_args, \* port_events: create_queries: args.start_date and args.end_date
    query_window, \* port_events: create_queries: start_window of the loop
    queries, \* port_events: create_queries: the date windows of the queries yielded
    queries_pc \* port_events: create_queries: where the generator stands

(***************************************************************************)
(* Bounds of the model.                                                    *)
(***************************************************************************)
\* The last date with data is MaxDate (port_visits) or MaxDate + 1
\* (port_events); date 0 is the day before the first run.
MaxDate == 1

\* The number of records one vessel sends.
MaxRecords == 4

\* The last timestamp of a track of remove_stationary_periods.
MaxTrackTime == 5

\* The number of records of a vessel that CreateTaggedPaths groups, and
\* their last timestamp.
MaxPathLen == 4

MaxPathTime == 4

\* The number of records tag_with_destination_and_id reads.
MaxTagLen == 4

\* The number of stationary periods in one fine cell.
MaxCellVisits == 3

\* min_unique_vessels_for_anchorage (20), scaled to the vessels of the model.
min_unique_vessels_for_anchorage == 2

\* FIVE_MINUTES, in ticks of two and a half minutes.
FIVE_MINUTES == 2

\* min_required_positions (200), scaled to the paths of the model.
min_required_positions == 3

\* stationary_period_min_duration (12 hours), in ticks of six hours.
stationary_period_min_duration == 2

\* stationary_period_max_distance (0.5 km), in units of 0.5 km.
stationary_period_max_distance == 1

\* The number of stationary periods and of active points that one fine cell
\* aggregates.
MaxAggregated == 3

\* dest_limit (10), scaled to the destinations of the model.
dest_limit == 1

\* The bits of the mantissa of a float (53), scaled to the durations of the
\* model.
MantissaBits == 3

\* The coarse cells along one side of the patch of a cube face that holds
\* the anchorages.
PatchSide == 3

\* The number of anchorage points the tagger reads.
MaxAnchorages == 2

\* The level of the fine cells.
ANCHORAGES_S2_SCALE == 14

\* The level of the coarse cells.
VISITS_S2_SCALE == 10

\* 'retries' of the DAG's default_args.
retries == 1

\* The daily runs of the port-events DAG that are followed.
MaxRunDate == 2

\* max_active_runs of the port-events DAG.
max_active_runs == 3

\* The longest tagged path given to the anchorage lookup.
MaxTaggedPath == 2

\* The side of a fine cell (about 0.5 km), in units of 0.1 km.
FineCellSide == 5

\* The last date an argument of create_queries takes.
MaxQueryDate == 6

\* shift of create_queries (1000 days in the source), scaled down.
shift == 2

(***************************************************************************)
(* Values and constants of the program.                                    *)
(***************************************************************************)
None == "None"

IN_PORT == "IN_PORT"

AT_SEA == "AT_SEA"

\* datetime.timedelta(days=1), in ticks.
OneDay == 2

\* port_entry_dist=3.0 (km), in units of 0.1 km.
port_entry_dist == 30

\* port_exit_dist=4.0 (km), in units of 0.1 km.
port_exit_dist == 40

STOPPED == "STOPPED"

GAP == "GAP"

\* config['stopped_begin_speed_knots'] (0.2), in units of 0.1 knot.
stopped_begin_speed == 2

\* config['stopped_end_speed_knots'] (0.5), in units of 0.1 knot.
stopped_end_speed == 5

\* config['minimum_port_gap_duration_minutes'], in ticks.
min_gap == 2

\* config['anchorage_entry_distance_km'] and config['anchorage_exit_distance_km'].
anchorage_entry_dist == port_entry_dist

anchorage_exit_dist == port_exit_dist

\* Absence of a timestamp.
NoTimestamp == 0 - 1

\* The date a timestamp falls in.
DateOf(ts) == ts \div OneDay

\* The anchorages of the anchorage table (their s2id tokens).
Anchorages == {"A", "B"}

\* Lexicographic rank of an anchorage's s2id token.
TokenRank(a) == IF a = "A" THEN 0 ELSE 1

\* The distance from which an anchorage is not in a record's reach.
Far == port_exit_dist + 20

\* A location is given by its distance to every anchorage.  The locations
\* cover: strictly inside the entry distance of A, exactly at it, between
\* the two thresholds, exactly at the exit distance, just beyond it, the
\* open sea, and strictly inside the entry distance of B.
Locations ==
    { [A |-> port_entry_dist - 1, B |-> Far],
      [A |-> port_entry_dist,     B |-> Far],
      [A |-> port_entry_dist + 5, B |-> Far],
      [A |-> port_exit_dist,      B |-> Far],
      [A |-> port_exit_dist + 1,  B |-> Far],
      [A |-> Far,                 B |-> Far],
      [A |-> Far,                 B |-> port_entry_dist - 1] }

\* The locations of the records of anchorages.port_visits: within the
\* entry distance of A, at it, between the thresholds, beyond the exit
\* distance, and within the entry distance of B.
InOutLocations ==
    { loc \in Locations :
        loc.A \in { port_entry_dist - 1, port_entry_dist, port_entry_dist + 5,
                    port_exit_dist + 1 }
        \/ loc.B < Far }

\* The locations of the records of port_events: at the entry distance of
\* A, between the thresholds, at the exit distance, on the open sea, and
\* within the entry distance of B.
EventLocations ==
    { loc \in Locations :
        loc.A \in { port_entry_dist, port_entry_dist + 5, port_exit_dist, Far } }

\* The speeds of the records: stopped, between the two speeds, under way.
Speeds == { stopped_begin_speed, stopped_begin_speed + 1, stopped_end_speed }

distance(loc, a) == loc[a]

\* The anchorage nearest to a location (ties: the smaller token).
Nearest(loc) ==
    CHOOSE a \in Anchorages :
        \A b \in Anchorages :
            \/ distance(loc, a) < distance(loc, b)
            \/ distance(loc, a) = distance(loc, b) /\ TokenRank(a) <= TokenRank(b)

\* AnchorageFinder.is_within_dist: the nearest anchorage and its distance,
\* or no port when the nearest one is farther than max_dist.
is_within_dist(max_dist, r) ==
    LET a == Nearest(r.location)
        d == distance(r.location, a)
    IN  IF d <= max_dist THEN [port |-> a, dist |-> d]
                         ELSE [port |-> None, dist |-> d]

Max(a, b) == IF a >= b THEN a ELSE b

MaxOf(S) == CHOOSE x \in S : \A y \in S : y <= x

MinOf(S) == CHOOSE x \in S : \A y \in S : x <= y

IsType(e, t) == e.event_type = t

VisitEvent(anchorage_id, timestamp, event_type) ==
    [anchorage_id |-> anchorage_id, timestamp |-> timestamp,
     event_type |-> event_type]

\* Mutant: an inclusive entry test.
InsideEntry_Inclusive(dist, entry_dist) == dist <= entry_dist

\* The entry test of find_in_out_events.
InsideEntry(dist, entry_dist) == dist < entry_dist

\* Mutant: no hysteresis, the exit test uses the entry distance.
OutsideExit_NoHysteresis(dist, exit_dist) == dist > port_entry_dist

\* The exit test of find_in_out_events.
OutsideExit(dist, exit_dist) == dist > exit_dist

\* Mutant: the loop starts AT_SEA instead of in no state.
InitialState_AtSea == AT_SEA

\* The state find_in_out_events starts in.
InitialState == None

\* Mutant: current_port is set at the entry only.
PortAfterInPort_KeepEntry(old_port, port) == IF old_port = None THEN port ELSE old_port

\* The port an in-port record leaves in current_port.
PortAfterInPort(old_port, port) == port

\* Mutant: every record in port appends a PORT_ENTRY, whatever the state.
in_out_step_EntryAlways(st, cur, r, entry_dist, exit_dist) ==
    LET buffer_dist == Max(entry_dist, exit_dist)
        found == is_within_dist(buffer_dist, r)
        port == found.port
        dist == found.dist
    IN  IF port # None /\ InsideEntry(dist, entry_dist)
        THEN [state |-> IN_PORT,
              current_port |-> PortAfterInPort(cur, port),
              new |-> << VisitEvent(port, r.timestamp, "PORT_ENTRY") >>]
        ELSE IF port = None \/ OutsideExit(dist, exit_dist)
        THEN [state |-> AT_SEA,
              current_port |-> None,
              new |-> IF st = IN_PORT
                      THEN << VisitEvent(cur, r.timestamp, "PORT_EXIT") >>
                      ELSE << >>]
        ELSE [state |-> st, current_port |-> cur, new |-> << >>]

\* One iteration of the loop of find_in_out_events: the new state, the new
\* current_port and the events appended.
in_out_step(st, cur, r, entry_dist, exit_dist) ==
    LET buffer_dist == Max(entry_dist, exit_dist)
        found == is_within_dist(buffer_dist, r)
        port == found.port
        dist == found.dist
    IN  IF port # None /\ InsideEntry(dist, entry_dist)
        THEN [state |-> IN_PORT,
              current_port |-> PortAfterInPort(cur, port),
              new |-> IF st = AT_SEA
                      THEN << VisitEvent(port, r.timestamp, "PORT_ENTRY") >>
                      ELSE << >>]
        ELSE IF port = None \/ OutsideExit(dist, exit_dist)
        THEN [state |-> AT_SEA,
              current_port |-> None,
              new |-> IF st = IN_PORT
                      THEN << VisitEvent(cur, r.timestamp, "PORT_EXIT") >>
                      ELSE << >>]
        ELSE [state |-> st, current_port |-> cur, new |-> << >>]

\* The first date the query of anchorages.port_visits reads: without
\* --start-window, one day before start_date.
start_window == start_date - 1

end_window == end_date

\* What rcd holds before the first record: no timestamp yet.
NoRecord ==
    [timestamp |-> NoTimestamp, location |-> [a \in Anchorages |-> Far],
     speed |-> stopped_end_speed]

\* The timestamp of the last record handled, or -1.
LastTimestamp == rcd.timestamp

\* Mutant: no deduplication, two records may share a timestamp.
NextTimestamps_NoDedup(first, last) ==
    { ts \in (first * OneDay) .. ((last + 1) * OneDay - 1) : ts >= LastTimestamp }

\* The timestamps the next record of the vessel may carry: the records are
\* sorted, deduplicated and thinned, and come from the queried dates.
NextTimestamps(first, last) ==
    { ts \in (first * OneDay) .. ((last + 1) * OneDay - 1) : ts > LastTimestamp }

inout_vars == << state, current_port, records >>

events_vars == << pc, vs, nrec, stateTable, eventTable, stream, ref_start, ref, ref_out >>

port_vars == << pipeline, start_date, end_date, events, rcd, prev, emitted,
               inout_vars, events_vars, visits >>

stationary_vars == << track, without_stationary_periods, stationary_periods,
                     current_period, candidates, exhausted >>

path_vars == << path_stage, grouped, ordered, deduped, thinned >>

tag_vars == << tag_input, dest, new_records, last_s2id >>

cell_vars == << cell_stage, stationary_periods_by_s2id, active_points_by_s2id,
               anchorage_points >>

\* The variables of the entry points modelled after find_anchorage_points.
aggregate_vars == << aggregate_stage, cell_visits, value, dict_order, aggregated >>

tagger_vars == << anchorage_pts, tagged_apts >>

parser_vars == << msg, tagged_record >>

carry_vars == << carry_pc, state_table, run_start_date, initial_states_pc, warnings, tables_read >>

sink_vars == << sink_pc, try_number, batch_end_date, batch_events, batch_states, event_shards, state_shards, loaded, load_count >>

exit_vars == << exit_try, job_states, exit_statuses >>

dag_vars == << dag_runs, task_instances, carry_over, input_partitions, state_partitions >>

lookup_vars == << port_input_data, port_data, tagged_path, lookup_pc, lookups, lookup_events >>

queries_vars == << query_args, query_window, queries, queries_pc >>

later_vars == << aggregate_vars, tagger_vars, parser_vars, carry_vars, sink_vars, exit_vars, dag_vars, lookup_vars, queries_vars >>

\* The variables of AnchoragePts_from_cell_visits while another entry point runs.
NoAggregate ==
    /\ aggregate_stage = "none"
    /\ cell_visits = [stationary_periods |-> << >>, active_points |-> << >>]
    /\ value = [stationary_periods |-> << >>, active_points |-> << >>]
    /\ dict_order = "none"
    /\ aggregated = << >>

\* The variables of tag_apts_with_nbr_s2ids while another entry point runs.
NoTagger ==
    /\ anchorage_pts = << >>
    /\ tagged_apts = << >>

\* The variables of VesselRecord.tagged_from_msg while another entry point runs.
NoParser ==
    /\ msg = << >>
    /\ tagged_record = << >>

\* The variables of run: the initial states while another entry point runs.
NoCarry ==
    /\ carry_pc = "none"
    /\ state_table = << >>
    /\ run_start_date = 0
    /\ initial_states_pc = {}
    /\ warnings = << >>
    /\ tables_read = {}

\* The variables of EventSink and EventStateSink while another entry point runs.
NoSink ==
    /\ sink_pc = "none"
    /\ try_number = 0
    /\ batch_end_date = 0
    /\ batch_events = {}
    /\ batch_states = {}
    /\ event_shards = << >>
    /\ state_shards = << >>
    /\ loaded = {}
    /\ load_count = << >>

\* The variables of port_events: run and __main__ while another entry point runs.
NoExit ==
    /\ exit_try = 0
    /\ job_states = << >>
    /\ exit_statuses = << >>

\* The variables of port_events_dag while another entry point runs.
NoDag ==
    /\ dag_runs = 0
    /\ task_instances = << >>
    /\ carry_over = << >>
    /\ input_partitions = {}
    /\ state_partitions = {}

\* The variables of anchorages.port_visits: the anchorage lookup while another entry point runs.
NoLookup ==
    /\ port_input_data = {}
    /\ port_data = << >>
    /\ tagged_path = << >>
    /\ lookup_pc = "idle"
    /\ lookups = << >>
    /\ lookup_events = << >>

\* The variables of port_events: create_queries while another entry point runs.
NoQueries ==
    /\ query_args = << >>
    /\ query_window = 0
    /\ queries = << >>
    /\ queries_pc = "idle"

NoLater ==
    /\ NoAggregate
    /\ NoTagger
    /\ NoParser
    /\ NoCarry
    /\ NoSink
    /\ NoExit
    /\ NoDag
    /\ NoLookup
    /\ NoQueries

\* The variables AnchoragePts_from_cell_visits does not touch.
not_aggregate_vars ==
    << port_vars, stationary_vars, path_vars, tag_vars, cell_vars, tagger_vars, parser_vars, carry_vars, sink_vars, exit_vars, dag_vars, lookup_vars, queries_vars >>

\* The variables tag_apts_with_nbr_s2ids does not touch.
not_tagger_vars ==
    << port_vars, stationary_vars, path_vars, tag_vars, cell_vars, aggregate_vars, parser_vars, carry_vars, sink_vars, exit_vars, dag_vars, lookup_vars, queries_vars >>

\* The variables VesselRecord.tagged_from_msg does not touch.
not_parser_vars ==
    << port_vars, stationary_vars, path_vars, tag_vars, cell_vars, aggregate_vars, tagger_vars, carry_vars, sink_vars, exit_vars, dag_vars, lookup_vars, queries_vars >>

\* The variables run: the initial states does not touch.
not_carry_vars ==
    << port_vars, stationary_vars, path_vars, tag_vars, cell_vars, aggregate_vars, tagger_vars, parser_vars, sink_vars, exit_vars, dag_vars, lookup_vars, queries_vars >>

\* The variables EventSink and EventStateSink does not touch.
not_sink_vars ==
    << port_vars, stationary_vars, path_vars, tag_vars, cell_vars, aggregate_vars, tagger_vars, parser_vars, carry_vars, exit_vars, dag_vars, lookup_vars, queries_vars >>

\* The variables port_events: run and __main__ does not touch.
not_exit_vars ==
    << port_vars, stationary_vars, path_vars, tag_vars, cell_vars, aggregate_vars, tagger_vars, parser_vars, carry_vars, sink_vars, dag_vars, lookup_vars, queries_vars >>

\* The variables port_events_dag does not touch.
not_dag_vars ==
    << port_vars, stationary_vars, path_vars, tag_vars, cell_vars, aggregate_vars, tagger_vars, parser_vars, carry_vars, sink_vars, exit_vars, lookup_vars, queries_vars >>

\* The variables anchorages.port_visits: the anchorage lookup does not touch.
not_lookup_vars ==
    << port_vars, stationary_vars, path_vars, tag_vars, cell_vars, aggregate_vars, tagger_vars, parser_vars, carry_vars, sink_vars, exit_vars, dag_vars, queries_vars >>

\* The variables port_events: create_queries does not touch.
not_queries_vars ==
    << port_vars, stationary_vars, path_vars, tag_vars, cell_vars, aggregate_vars, tagger_vars, parser_vars, carry_vars, sink_vars, exit_vars, dag_vars, lookup_vars >>

\* The variables of the functions of anchorages/common.py.
common_vars == << stationary_vars, path_vars, tag_vars, cell_vars, later_vars >>

\* The variables remove_stationary_periods does not touch.
not_stationary_vars == << port_vars, path_vars, tag_vars, cell_vars, later_vars >>

\* The variables CreateTaggedPaths does not touch.
not_path_vars == << port_vars, stationary_vars, tag_vars, cell_vars, later_vars >>

\* The variables tag_with_destination_and_id does not touch.
not_tag_vars == << port_vars, stationary_vars, path_vars, cell_vars, later_vars >>

\* The variables find_anchorage_points does not touch.
not_cell_vars == << port_vars, stationary_vars, path_vars, tag_vars, later_vars >>

vars == << port_vars, common_vars >>

\* The variables of remove_stationary_periods while another entry point runs.
NoStationary ==
    /\ track = << >>
    /\ without_stationary_periods = << >>
    /\ stationary_periods = << >>
    /\ current_period = << >>
    /\ candidates = << >>
    /\ exhausted = FALSE

\* The variables of CreateTaggedPaths while another entry point runs.
NoPaths ==
    /\ path_stage = "none"
    /\ grouped = << >>
    /\ ordered = << >>
    /\ deduped = << >>
    /\ thinned = << >>

\* The variables of tag_with_destination_and_id before its loop.
NoTags ==
    /\ tag_input = << >>
    /\ dest = ""
    /\ new_records = << >>
    /\ last_s2id = None

\* The variables of find_anchorage_points while another entry point runs.
NoCells ==
    /\ cell_stage = "none"
    /\ stationary_periods_by_s2id = << >>
    /\ active_points_by_s2id = {}
    /\ anchorage_points = << >>

\* The variables of the functions of anchorages/common.py while an entry
\* point of the port model runs.
NoCommon == NoStationary /\ NoPaths /\ NoTags /\ NoCells /\ NoLater

(***************************************************************************)
(* port_events: the state machine of CreateInOutEvents and its carry-over. *)
(***************************************************************************)
PortEvent(anchorage_id, timestamp, event_type, last_timestamp) ==
    [anchorage_id |-> anchorage_id, timestamp |-> timestamp,
     event_type |-> event_type, last_timestamp |-> last_timestamp]

\* The nearest anchorage among those in the record's reach, and its
\* distance; no port when there is none.
Resolve(r) ==
    LET a == Nearest(r.location)
        d == distance(r.location, a)
    IN  IF d >= Far THEN [port |-> None, dist |-> Far]
                    ELSE [port |-> a, dist |-> d]

\* A vessel with no carried-over state.
EmptyCarryOver == [state |-> AT_SEA, last_timestamp |-> NoTimestamp, active_port |-> None]

InPortStates == { IN_PORT, STOPPED, GAP }

\* Whether the record comes a gap after the last one.
IsGap(s, r) ==
    /\ s.state \in { IN_PORT, STOPPED }
    /\ s.last_timestamp # NoTimestamp
    /\ r.timestamp - s.last_timestamp >= min_gap

\* The anchorage the gap events are tied to.
GapAnchorage(s, r) == s.active_port

\* The PORT_GAP events of a record.
GapEvents(s, r) ==
    IF IsGap(s, r)
    THEN << PortEvent(GapAnchorage(s, r), s.last_timestamp, "PORT_GAP_BEGIN", s.last_timestamp),
            PortEvent(GapAnchorage(s, r), r.timestamp, "PORT_GAP_END", s.last_timestamp) >>
    ELSE << >>

\* What a vessel that leaves while STOPPED emits before its PORT_EXIT.
StopEndOnExit(s, r) ==
    IF s.state = STOPPED
    THEN << PortEvent(s.active_port, s.last_timestamp, "PORT_STOP_END", s.last_timestamp) >>
    ELSE << >>

\* The state transition of a record: at most one change of membership.
Transition(s, r) ==
    LET found == Resolve(r)
        same == [state |-> s.state, active_port |-> s.active_port, new |-> << >>]
    IN  IF s.state = AT_SEA
        THEN IF found.port # None /\ found.dist <= anchorage_entry_dist
             THEN [state |-> IN_PORT, active_port |-> found.port,
                   new |-> << PortEvent(found.port, r.timestamp, "PORT_ENTRY",
                                        s.last_timestamp) >>]
             ELSE same
        ELSE IF found.port = None \/ found.dist >= anchorage_exit_dist
        THEN [state |-> AT_SEA, active_port |-> None,
              new |-> StopEndOnExit(s, r)
                      \o << PortEvent(s.active_port, r.timestamp, "PORT_EXIT",
                                      s.last_timestamp) >>]
        ELSE IF s.state = IN_PORT /\ r.speed <= stopped_begin_speed
        THEN [state |-> STOPPED, active_port |-> s.active_port,
              new |-> << PortEvent(s.active_port, r.timestamp, "PORT_STOP_BEGIN",
                                   s.last_timestamp) >>]
        ELSE IF s.state = STOPPED /\ r.speed >= stopped_end_speed
        THEN [state |-> IN_PORT, active_port |-> s.active_port,
              new |-> << PortEvent(s.active_port, r.timestamp, "PORT_STOP_END",
                                   s.last_timestamp) >>]
        ELSE same

\* One record through the state machine: the new visit state and the
\* events emitted, in the order they are emitted.
create_in_out_events(s, r) ==
    LET t == Transition(s, r)
    IN  [vs  |-> [state |-> t.state, last_timestamp |-> r.timestamp,
                  active_port |-> t.active_port],
         new |-> GapEvents(s, r) \o t.new]

\* An event is part of a run's output iff its timestamp is in the run's dates.
InDates(e, first, last) ==
    first <= DateOf(e.timestamp) /\ DateOf(e.timestamp) <= last

Output(new, first, last) == SelectSeq(new, LAMBDA e : InDates(e, first, last))

\* (x - epoch).total_seconds() of a timestamp, and its inverse.
SecondsPerTick == 86400 \div OneDay

\* Mutant: the timestamp is written to the day.
total_seconds_Days(ts) == (ts \div OneDay) * OneDay * SecondsPerTick

total_seconds(ts) == ts * SecondsPerTick

from_seconds(sec) == sec \div SecondsPerTick

\* A partition of the state table that was never written.
NoTable == [exists |-> FALSE, rows |-> {}]

\* Mutant: the row of a stopped vessel says IN_PORT.
StateRow_StoppedAsInPort(date, s) ==
    [date |-> date, state |-> IF s.state = STOPPED THEN IN_PORT ELSE s.state,
     last_timestamp |-> total_seconds(s.last_timestamp),
     active_port |-> s.active_port]

\* EventStateSink: the row of a vessel's visit state for a date.
StateRow(date, s) ==
    [date |-> date, state |-> s.state,
     last_timestamp |-> total_seconds(s.last_timestamp),
     active_port |-> s.active_port]

\* The partition a run writes for a date: a vessel never seen has no row.
StatePartition(date, s) ==
    [exists |-> TRUE,
     rows |-> IF s.last_timestamp = NoTimestamp THEN {} ELSE { StateRow(date, s) }]

FromStateRow(row) ==
    [state |-> row.state, last_timestamp |-> from_seconds(row.last_timestamp),
     active_port |-> row.active_port]

\* Mutant: the state is read from the partition two days back.
prev_date_TwoDays(sd) == sd - 2

\* The date whose state partition a run that starts on sd reads.
prev_date(sd) == sd - 1

state_table_exists(table, date) == date \in DOMAIN table /\ table[date].exists

\* The carried-over state a run that starts on sd begins with: the row of
\* the partition of prev_date, or nothing (with a warning) without it.
initial_states(table, sd) ==
    IF state_table_exists(table, prev_date(sd)) /\ table[prev_date(sd)].rows # {}
    THEN FromStateRow(CHOOSE row \in table[prev_date(sd)].rows : TRUE)
    ELSE EmptyCarryOver

\* The states the partition of date 0 may hold when the first run starts.
PriorPartitions ==
    { NoTable,
      StatePartition(0, [state |-> IN_PORT, last_timestamp |-> OneDay - 1,
                         active_port |-> "A"]),
      StatePartition(0, [state |-> STOPPED, last_timestamp |-> 0,
                         active_port |-> "A"]) }

(***************************************************************************)
(* anchorages.port_visits: find_in_out_events over one vessel's records.   *)
(***************************************************************************)
InitInOut ==
    /\ pipeline = "anchorages.port_visits"
    /\ start_date \in 1 .. MaxDate
    /\ end_date \in start_date .. MaxDate
    /\ state = InitialState
    /\ current_port = None
    /\ events = << >>
    /\ records = << >>
    /\ rcd = NoRecord
    /\ prev = [state |-> None, current_port |-> None, last_timestamp |-> NoTimestamp]
    /\ emitted = << >>
    /\ pc = "idle"
    /\ vs = EmptyCarryOver
    /\ nrec = 0
    /\ stateTable = [d \in 0 .. MaxDate + 1 |-> NoTable]
    /\ eventTable = [d \in 0 .. MaxDate + 1 |-> << >>]
    /\ stream = << >>
    /\ ref_start = 0
    /\ ref = EmptyCarryOver
    /\ ref_out = << >>
    /\ visits = << >>
    /\ NoCommon

\* One record of the vessel goes through the loop; its events are written.
FindInOutEvents ==
    /\ pipeline = "anchorages.port_visits"
    /\ Len(records) < MaxRecords
    /\ \E ts \in NextTimestamps(start_window, end_window), loc \in InOutLocations :
         \* a tagged record's speed plays no part in find_in_out_events
         LET r == [timestamp |-> ts, location |-> loc, speed |-> stopped_end_speed]
             s == in_out_step(state, current_port, r, port_entry_dist, port_exit_dist)
         IN  /\ records' = Append(records, r)
             /\ rcd' = r
             /\ emitted' = s.new
             /\ prev' = [state |-> state, current_port |-> current_port,
                          last_timestamp |-> LastTimestamp]
             /\ state' = s.state
             /\ current_port' = s.current_port
             /\ events' = events \o s.new
    /\ UNCHANGED << pipeline, start_date, end_date, events_vars, visits,
                    common_vars >>

InitPortEvents ==
    /\ pipeline = "port_events"
    /\ start_date = 1
    /\ end_date = 1
    /\ state = None
    /\ current_port = None
    /\ records = << >>
    /\ events = << >>
    /\ rcd = NoRecord
    /\ prev = [state |-> None, current_port |-> None, last_timestamp |-> NoTimestamp]
    /\ emitted = << >>
    /\ pc = "idle"
    /\ vs = EmptyCarryOver
    /\ nrec = 0
    /\ \E part \in PriorPartitions :
         stateTable = [d \in 0 .. MaxDate + 1 |-> IF d = 0 THEN part ELSE NoTable]
    /\ eventTable = [d \in 0 .. MaxDate + 1 |-> << >>]
    /\ stream = << >>
    /\ ref_start \in 1 .. MaxDate
    /\ ref = EmptyCarryOver
    /\ ref_out = << >>
    /\ visits = << >>
    /\ NoCommon

\* The daily run for start_date = end_date starts: it reads its carry-over.
\* The reference run starts with the daily run of its first date.
StartBatch ==
    /\ pipeline = "port_events"
    /\ pc = "idle"
    /\ pc' = "running"
    /\ vs' = initial_states(stateTable, start_date)
    /\ events' = << >>
    /\ IF start_date = ref_start
       THEN ref' = initial_states(stateTable, start_date) /\ ref_out' = << >>
       ELSE UNCHANGED << ref, ref_out >>
    /\ UNCHANGED << pipeline, start_date, end_date, rcd, prev, emitted, inout_vars,
                    nrec, stateTable, eventTable, stream, ref_start, visits,
                    common_vars >>

\* A record of the run's dates goes through the state machine, in the daily
\* run and in the reference run.
CreateInOutEvents ==
    /\ pipeline = "port_events"
    /\ pc = "running"
    /\ nrec < MaxRecords
    /\ \E ts \in NextTimestamps(start_date, end_date), loc \in EventLocations, sp \in Speeds :
         LET r == [timestamp |-> ts, location |-> loc, speed |-> sp]
             s == create_in_out_events(vs, r)
             w == create_in_out_events(ref, r)
         IN  /\ rcd' = r
             /\ prev' = [state |-> vs.state, current_port |-> vs.active_port,
                          last_timestamp |-> vs.last_timestamp]
             /\ emitted' = s.new
             /\ vs' = s.vs
             /\ events' = events \o Output(s.new, start_date, end_date)
             /\ stream' = stream \o s.new
             /\ IF start_date >= ref_start
                THEN /\ ref' = w.vs
                     /\ ref_out' = ref_out \o Output(w.new, ref_start, end_date)
                ELSE UNCHANGED << ref, ref_out >>
    /\ nrec' = nrec + 1
    /\ UNCHANGED << pipeline, start_date, end_date, inout_vars, pc, stateTable,
                    eventTable, ref_start, visits,
                    common_vars >>

\* The run ends: its events and the state go to their date shards, and the
\* next day's run becomes due.
EndBatch ==
    /\ pipeline = "port_events"
    /\ pc = "running"
    /\ eventTable' = [eventTable EXCEPT ![start_date] = events]
    /\ stateTable' = [stateTable EXCEPT ![start_date] = StatePartition(start_date, vs)]
    /\ IF start_date <= MaxDate
       THEN /\ pc' = "idle"
            /\ start_date' = start_date + 1
            /\ end_date' = end_date + 1
       ELSE /\ pc' = "done"
            /\ UNCHANGED << start_date, end_date >>
    /\ UNCHANGED << pipeline, events, rcd, prev, emitted, inout_vars, vs, nrec,
                    stream, ref_start, ref, ref_out, visits,
                    common_vars >>

(***************************************************************************)
(* port_visits: the grouping of a vessel's events into visits.             *)
(***************************************************************************)
\* The order of two events that share a timestamp.
EventRank(t) ==
    CASE t = "PORT_ENTRY"      -> 0
      [] t = "PORT_STOP_BEGIN" -> 1
      [] t = "PORT_GAP_BEGIN"  -> 2
      [] t = "PORT_GAP_END"    -> 3
      [] t = "PORT_STOP_END"   -> 4
      [] OTHER                 -> 5

EventBefore(e, f) ==
    \/ e.timestamp < f.timestamp
    \/ e.timestamp = f.timestamp /\ EventRank(e.event_type) <= EventRank(f.event_type)

\* seq, sorted, with e in its place.
RECURSIVE Insert(_, _)
Insert(seq, e) ==
    IF seq = << >> THEN << e >>
    ELSE IF EventBefore(seq[Len(seq)], e) THEN Append(seq, e)
    ELSE Append(Insert(SubSeq(seq, 1, Len(seq) - 1), e), seq[Len(seq)])

\* The events sorted by timestamp.
RECURSIVE SortEvents(_)
SortEvents(seq) ==
    IF seq = << >> THEN << >>
    ELSE Insert(SortEvents(SubSeq(seq, 1, Len(seq) - 1)), seq[Len(seq)])

PortVisit(visit_events) ==
    [start_timestamp    |-> visit_events[1].timestamp,
     start_anchorage_id |-> visit_events[1].anchorage_id,
     end_timestamp      |-> visit_events[Len(visit_events)].timestamp,
     end_anchorage_id   |-> visit_events[Len(visit_events)].anchorage_id,
     events             |-> visit_events]

\* Mutant: the visit still open at the end of the events is emitted.
Trailing_Emitted(open, out) ==
    IF open = << >> THEN out ELSE Append(out, PortVisit(open))

\* What the walk yields at the end of the events: the visit still open is
\* not emitted.
Trailing(open, out) == out

\* The walk over the sorted events from position i, with the events of the
\* open visit (none when no visit is open) and the visits emitted so far.
RECURSIVE Walk(_, _, _, _)
Walk(seq, i, open, out) ==
    IF i > Len(seq) THEN Trailing(open, out)
    ELSE IF open = << >>
    THEN IF IsType(seq[i], "PORT_ENTRY") THEN Walk(seq, i + 1, << seq[i] >>, out)
                                         ELSE Walk(seq, i + 1, open, out)
    ELSE IF IsType(seq[i], "PORT_EXIT")
    THEN Walk(seq, i + 1, << >>, Append(out, PortVisit(Append(open, seq[i]))))
    ELSE Walk(seq, i + 1, Append(open, seq[i]), out)

create_port_visits(seq) == Walk(SortEvents(seq), 1, << >>, << >>)

\* The records of the vessels whose events are grouped: within the entry
\* distance of A, between the thresholds, and on the open sea.
VisitLocations ==
    { loc \in Locations :
        loc.B = Far /\ loc.A \in { port_entry_dist - 1, port_entry_dist + 5, Far } }

VisitSpeeds == { stopped_begin_speed, stopped_end_speed }

InitPortVisits ==
    /\ pipeline = "port_visits"
    /\ start_date = 1
    /\ end_date = MaxDate + 1
    /\ state = None
    /\ current_port = None
    /\ records = << >>
    /\ events = << >>
    /\ rcd = NoRecord
    /\ prev = [state |-> None, current_port |-> None, last_timestamp |-> NoTimestamp]
    /\ emitted = << >>
    /\ pc = "idle"
    /\ \E part \in PriorPartitions :
         /\ stateTable = [d \in 0 .. MaxDate + 1 |-> IF d = 0 THEN part ELSE NoTable]
         /\ vs = initial_states([d \in 0 .. 0 |-> part], 1)
    /\ nrec = 0
    /\ eventTable = [d \in 0 .. MaxDate + 1 |-> << >>]
    /\ stream = << >>
    /\ ref_start = 0
    /\ ref = EmptyCarryOver
    /\ ref_out = << >>
    /\ visits = << >>
    /\ NoCommon

\* The events of one more record of the vessel are in the event table, and
\* the events of start_date .. end_date are grouped into visits.
CreatePortVisits ==
    /\ pipeline = "port_visits"
    /\ nrec < MaxRecords
    /\ \E ts \in NextTimestamps(start_date, end_date), loc \in VisitLocations,
          sp \in VisitSpeeds :
         LET r == [timestamp |-> ts, location |-> loc, speed |-> sp]
             s == create_in_out_events(vs, r)
         IN  /\ rcd' = r
             /\ emitted' = s.new
             /\ vs' = s.vs
             /\ events' = events \o Output(s.new, start_date, end_date)
             /\ visits' = create_port_visits(events \o Output(s.new, start_date, end_date))
    /\ nrec' = nrec + 1
    /\ UNCHANGED << pipeline, start_date, end_date, prev, inout_vars, pc, stateTable,
                    eventTable, stream, ref_start, ref, ref_out, common_vars >>

Init == InitInOut \/ InitPortEvents \/ InitPortVisits

Next ==
    \/ FindInOutEvents
    \/ StartBatch
    \/ CreateInOutEvents
    \/ EndBatch
    \/ CreatePortVisits

Spec == Init /\ [][Next]_vars

(***************************************************************************)
(* anchorages.common: remove_stationary_periods over one vessel's records. *)
(***************************************************************************)
\* The variables of the port model while a function of common.py runs.
NoPorts ==
    /\ pipeline = "anchorages.common"
    /\ start_date = 0
    /\ end_date = 0
    /\ state = None
    /\ current_port = None
    /\ records = << >>
    /\ events = << >>
    /\ rcd = NoRecord
    /\ prev = [state |-> None, current_port |-> None, last_timestamp |-> NoTimestamp]
    /\ emitted = << >>
    /\ pc = "idle"
    /\ vs = EmptyCarryOver
    /\ nrec = 0
    /\ stateTable = [d \in 0 .. MaxDate + 1 |-> NoTable]
    /\ eventTable = [d \in 0 .. MaxDate + 1 |-> << >>]
    /\ stream = << >>
    /\ ref_start = 0
    /\ ref = EmptyCarryOver
    /\ ref_out = << >>
    /\ visits = << >>

\* The positions of a vessel along a line, in units of
\* stationary_period_max_distance.
Positions == 0 .. 3

\* The distance between two locations.
location_distance(a, b) == IF a >= b THEN a - b ELSE b - a

\* Mutant: the radius test lets a record one unit further in.
BeyondRadius_Wider(d, max_distance) == d > max_distance + 1

\* The test that closes the candidate period.
BeyondRadius(d, max_distance) == d > max_distance

\* Mutant: a span equal to the minimum duration makes a period.
LongStay_Inclusive(span, min_duration) == span >= min_duration

\* The test that turns the closed candidate into a StationaryPeriod.
LongStay(span, min_duration) == span > min_duration

\* Mutant: the whole period stays in the trajectory.
Endpoints_All(period) == period

\* What stays in the trajectory of a candidate closed into a period.
Endpoints(period) ==
    IF period[Len(period)] # period[1]
    THEN << period[1], period[Len(period)] >>
    ELSE << period[1] >>

\* Mutant: the residual candidate is reduced to its first and last records.
Flush_Endpoints(out, period) ==
    IF period = << >> THEN out
    ELSE out \o (IF Len(period) > 1 THEN << period[1], period[Len(period)] >>
                                    ELSE << period[1] >>)

\* What the end of the records does with the residual candidate.
Flush(out, period) == out \o period

Span(period) == period[Len(period)].timestamp - period[1].timestamp

StationaryPeriod(period) ==
    [start_time |-> period[1].timestamp, duration |-> Span(period),
     num_points |-> Len(period)]

\* One pass of the loop of remove_stationary_periods over the record vr.
remove_stationary_step(out, periods, period, vr, min_duration, max_distance) ==
    IF period # << >>
       /\ BeyondRadius(location_distance(vr.location, period[1].location), max_distance)
    THEN IF LongStay(Span(period), min_duration)
         THEN [without |-> out \o Endpoints(period),
               periods |-> Append(periods, StationaryPeriod(period)),
               period  |-> << vr >>,
               closed  |-> << [records |-> period, is_period |-> TRUE] >>]
         ELSE [without |-> out \o period,
               periods |-> periods,
               period  |-> << vr >>,
               closed  |-> << [records |-> period, is_period |-> FALSE] >>]
    ELSE [without |-> out, periods |-> periods, period |-> Append(period, vr),
          closed |-> << >>]

\* The timestamps a next record of the track may have.
TrackTimestamps ==
    { ts \in 0 .. MaxTrackTime : track = << >> \/ ts > track[Len(track)].timestamp }

InitStationary ==
    /\ NoPorts
    /\ NoStationary
    /\ NoPaths
    /\ NoTags
    /\ NoCells
    /\ NoLater

\* The loop reads the next record.
RemoveStationaryPeriods ==
    /\ pipeline = "anchorages.common"
    /\ ~exhausted
    /\ \E ts \in TrackTimestamps, pos \in Positions :
         LET vr == [timestamp |-> ts, location |-> pos]
             s == remove_stationary_step(without_stationary_periods, stationary_periods,
                                         current_period, vr,
                                         stationary_period_min_duration,
                                         stationary_period_max_distance)
         IN  /\ track' = Append(track, vr)
             /\ without_stationary_periods' = s.without
             /\ stationary_periods' = s.periods
             /\ current_period' = s.period
             /\ candidates' = candidates \o s.closed
    /\ UNCHANGED << not_stationary_vars, exhausted >>

\* The records are exhausted: the loop ends and the function returns.
ReturnProcessedLocations ==
    /\ pipeline = "anchorages.common"
    /\ ~exhausted
    /\ exhausted' = TRUE
    /\ without_stationary_periods' = Flush(without_stationary_periods, current_period)
    /\ UNCHANGED << not_stationary_vars, track, stationary_periods, current_period,
                    candidates >>

NextStationary == RemoveStationaryPeriods \/ ReturnProcessedLocations

SpecStationary == InitStationary /\ [][NextStationary]_vars

(***************************************************************************)
(* CreateTaggedPaths.expand: order, dedup, length filter and thinning of   *)
(* one vessel's records; thin_points and dedup_by_timestamp of common.py.  *)
(***************************************************************************)
\* seq, ordered by timestamp, with x after the records that are not later.
RECURSIVE insert_by_timestamp(_, _)
insert_by_timestamp(seq, x) ==
    IF seq = << >> THEN << x >>
    ELSE IF seq[Len(seq)].timestamp <= x.timestamp THEN Append(seq, x)
    ELSE Append(insert_by_timestamp(SubSeq(seq, 1, Len(seq) - 1), x), seq[Len(seq)])

\* records.sort(key=lambda x: x.timestamp): a stable sort.
RECURSIVE order_by_timestamp(_)
order_by_timestamp(seq) ==
    IF seq = << >> THEN << >>
    ELSE insert_by_timestamp(order_by_timestamp(SubSeq(seq, 1, Len(seq) - 1)),
                             seq[Len(seq)])

\* Mutant: no record is taken for a duplicate.
IsDuplicate_Never(x, seen) == FALSE

\* The test of dedup_by_timestamp.
IsDuplicate(x, seen) == x.timestamp \in seen

\* The loop of dedup_by_timestamp from position i of source.
RECURSIVE dedup_from(_, _, _, _)
dedup_from(source, i, seen, sink) ==
    IF i > Len(source) THEN sink
    ELSE IF IsDuplicate(source[i], seen) THEN dedup_from(source, i + 1, seen, sink)
    ELSE dedup_from(source, i + 1, seen \cup { source[i].timestamp },
                    Append(sink, source[i]))

dedup_by_timestamp(source) == dedup_from(source, 1, {}, << >>)

\* Mutant: a series of exactly min_required_positions records is dropped.
long_enough_Strict(seq) == Len(seq) > min_required_positions

\* CreateTaggedPaths.long_enough, the filter of filter_duplicate_timestamps.
long_enough(seq) == Len(seq) >= min_required_positions

\* datetime.datetime(datetime.MINYEAR, 1, 1): earlier than every record.
MINYEAR == 0 - 1000

\* Mutant: a record exactly five minutes after the last kept one is left out.
ThinRecordsFarEnough_Strict(dt) == dt > FIVE_MINUTES

\* The test of CreateTaggedPaths.thin_records.
ThinRecordsFarEnough(dt) == dt >= FIVE_MINUTES

\* The test of thin_points.
ThinPointsFarEnough(dt) == dt >= FIVE_MINUTES

\* The loop of CreateTaggedPaths.thin_records from position i.
RECURSIVE thin_records_from(_, _, _, _)
thin_records_from(seq, i, last_timestamp, kept) ==
    IF i > Len(seq) THEN kept
    ELSE IF ThinRecordsFarEnough(seq[i].timestamp - last_timestamp)
    THEN thin_records_from(seq, i + 1, seq[i].timestamp, Append(kept, seq[i]))
    ELSE thin_records_from(seq, i + 1, last_timestamp, kept)

thin_records(seq) == thin_records_from(seq, 1, MINYEAR, << >>)

\* The loop of thin_points over records[1:], from position i.
RECURSIVE thin_points_from(_, _, _, _)
thin_points_from(seq, i, last, kept) ==
    IF i > Len(seq) THEN kept
    ELSE IF ThinPointsFarEnough(seq[i].timestamp - last.timestamp)
    THEN thin_points_from(seq, i + 1, seq[i], Append(kept, seq[i]))
    ELSE thin_points_from(seq, i + 1, last, kept)

thin_points(seq) ==
    IF seq = << >> THEN << >>
    ELSE thin_points_from(seq, 2, seq[1], << seq[1] >>)

\* The record lists GroupByKey may hand over: any timestamps in any order;
\* a record is told from the others by its place in the list.
RECURSIVE GroupedRecords(_)
GroupedRecords(n) ==
    IF n = 0 THEN { << >> }
    ELSE GroupedRecords(n - 1)
         \cup { Append(seq, [timestamp |-> ts, id |-> n]) :
                  seq \in { g \in GroupedRecords(n - 1) : Len(g) = n - 1 },
                  ts \in 0 .. MaxPathTime }

InitPaths ==
    /\ NoPorts
    /\ NoStationary
    /\ path_stage = "grouped"
    /\ grouped \in GroupedRecords(MaxPathLen)
    /\ ordered = << >>
    /\ deduped = << >>
    /\ thinned = << >>
    /\ NoTags
    /\ NoCells
    /\ NoLater

OrderByTimestamp ==
    /\ path_stage = "grouped"
    /\ ordered' = order_by_timestamp(grouped)
    /\ path_stage' = "ordered"
    /\ UNCHANGED << not_path_vars, grouped, deduped, thinned >>

DedupByTimestamp ==
    /\ path_stage = "ordered"
    /\ deduped' = dedup_by_timestamp(ordered)
    /\ path_stage' = "deduped"
    /\ UNCHANGED << not_path_vars, grouped, ordered, thinned >>

\* The filter passes the vessel on or drops it.
LongEnough ==
    /\ path_stage = "deduped"
    /\ path_stage' = IF long_enough(deduped) THEN "long_enough" ELSE "dropped"
    /\ UNCHANGED << not_path_vars, grouped, ordered, deduped, thinned >>

ThinRecords ==
    /\ path_stage = "long_enough"
    /\ thinned' = thin_records(deduped)
    /\ path_stage' = "thinned"
    /\ UNCHANGED << not_path_vars, grouped, ordered, deduped >>

NextPaths == OrderByTimestamp \/ DedupByTimestamp \/ LongEnough \/ ThinRecords

SpecPaths == InitPaths /\ [][NextPaths]_vars

(***************************************************************************)
(* anchorages.common: tag_with_destination_and_id over one vessel's        *)
(* records.                                                                *)
(***************************************************************************)
\* The destinations of the info records, and the fine cells (S2 tokens) of
\* the location records.
Destinations == { "", "HONG KONG", "SINGAPORE" }

Cells == { "89c25", "3442b" }

VesselInfoRecord(destination, id) ==
    [kind |-> "info", destination |-> destination, location |-> None, id |-> id]

VesselLocationRecord(location, id) ==
    [kind |-> "location", destination |-> None, location |-> location, id |-> id]

\* S2_cell_ID(rcd.location).to_token(): a location is given by its cell.
S2_cell_ID(location) == location

\* A Python bool as a value that no token equals.
PyBool(b) == IF b THEN "True" ELSE "False"

TaggedVesselLocationRecord(destination, s2id, is_new_id, r) ==
    [destination |-> destination, s2id |-> s2id, is_new_id |-> is_new_id,
     location |-> r.location, id |-> r.id]

\* Mutant: an info record leaves the running destination as it is.
next_destination_Kept(old, r) == old

\* The running destination after an info record.
next_destination(old, r) == r.destination

\* One pass of the loop of tag_with_destination_and_id over the record r.
tag_step(d, tagged, last, r) ==
    IF r.kind = "info"
    THEN [dest |-> next_destination(d, r), new |-> tagged, last_s2id |-> last]
    ELSE LET s2id == S2_cell_ID(r.location)
             is_new_id == (s2id = last)
         IN  [dest |-> d,
              new |-> Append(tagged, TaggedVesselLocationRecord(d, s2id, is_new_id, r)),
              last_s2id |-> PyBool(is_new_id)]

InitTags ==
    /\ NoPorts
    /\ NoStationary
    /\ NoPaths
    /\ NoTags
    /\ NoCells
    /\ NoLater

\* The loop reads the next record, an info record or a location record.
TagWithDestinationAndId ==
    /\ pipeline = "anchorages.common"
    /\ Len(tag_input) < MaxTagLen
    /\ \E r \in { VesselInfoRecord(d, Len(tag_input) + 1) : d \in Destinations }
               \cup { VesselLocationRecord(c, Len(tag_input) + 1) : c \in Cells } :
         LET s == tag_step(dest, new_records, last_s2id, r)
         IN  /\ tag_input' = Append(tag_input, r)
             /\ dest' = s.dest
             /\ new_records' = s.new
             /\ last_s2id' = s.last_s2id
    /\ UNCHANGED not_tag_vars

NextTags == TagWithDestinationAndId

SpecTags == InitTags /\ [][NextTags]_vars

(***************************************************************************)
(* anchorages.common: find_anchorage_points for one fine cell.             *)
(***************************************************************************)
\* The vessels (md) with stationary periods or active points in the cell.
Vessels == { "mmsi1", "mmsi2", "mmsi3" }

\* The (md, sp) entries the cell may have, in the order they are grouped.
RECURSIVE StationaryEntries(_)
StationaryEntries(n) ==
    IF n = 0 THEN { << >> }
    ELSE StationaryEntries(n - 1)
         \cup { Append(seq, [md |-> v, sp |-> n]) :
                  seq \in { e \in StationaryEntries(n - 1) : Len(e) = n - 1 },
                  v \in Vessels }

\* The vessels of the entries of seq.
MdsOf(seq) == { seq[i].md : i \in 1 .. Len(seq) }

AnchoragePoint(s2id, stationary, active) ==
    [s2id |-> s2id,
     total_visits |-> Len(stationary),
     vessels |-> MdsOf(stationary),
     active_mmsi |-> Cardinality(active),
     total_mmsi |-> Cardinality(MdsOf(stationary) \cup active)]

\* The AnchoragePoints of one cell: one if it has stationary periods.
AnchoragePts_from_cell_visits(s2id, stationary, active) ==
    IF Len(stationary) # 0
    THEN << AnchoragePoint(s2id, stationary, active) >>
    ELSE << >>

\* Mutant: the filter counts the visits instead of the vessels.
enough_vessels_ByVisits(x) == x.total_visits >= min_unique_vessels_for_anchorage

\* removeAPointsWFewVessels.
enough_vessels(x) == Cardinality(x.vessels) >= min_unique_vessels_for_anchorage

InitCells ==
    /\ NoPorts
    /\ NoStationary
    /\ NoPaths
    /\ NoTags
    /\ NoLater
    /\ cell_stage = "cogrouped"
    /\ stationary_periods_by_s2id \in StationaryEntries(MaxCellVisits)
    /\ active_points_by_s2id \in SUBSET Vessels
    /\ anchorage_points = << >>

CreateAnchoragePoints ==
    /\ cell_stage = "cogrouped"
    /\ anchorage_points' =
          AnchoragePts_from_cell_visits("89c25", stationary_periods_by_s2id,
                                        active_points_by_s2id)
    /\ cell_stage' = "created"
    /\ UNCHANGED << not_cell_vars, stationary_periods_by_s2id, active_points_by_s2id >>

RemoveAPointsWFewVessels ==
    /\ cell_stage = "created"
    /\ anchorage_points' = SelectSeq(anchorage_points, enough_vessels)
    /\ cell_stage' = "filtered"
    /\ UNCHANGED << not_cell_vars, stationary_periods_by_s2id, active_points_by_s2id >>

NextCells == CreateAnchoragePoints \/ RemoveAPointsWFewVessels

SpecCells == InitCells /\ [][NextCells]_vars

\* What an entry point modelled below finds when it runs alone.
OnlyAggregate ==
    /\ NoPorts
    /\ NoStationary
    /\ NoPaths
    /\ NoTags
    /\ NoCells
    /\ NoTagger
    /\ NoParser
    /\ NoCarry
    /\ NoSink
    /\ NoExit
    /\ NoDag
    /\ NoLookup
    /\ NoQueries

OnlyTagger ==
    /\ NoPorts
    /\ NoStationary
    /\ NoPaths
    /\ NoTags
    /\ NoCells
    /\ NoAggregate
    /\ NoParser
    /\ NoCarry
    /\ NoSink
    /\ NoExit
    /\ NoDag
    /\ NoLookup
    /\ NoQueries

OnlyParser ==
    /\ NoPorts
    /\ NoStationary
    /\ NoPaths
    /\ NoTags
    /\ NoCells
    /\ NoAggregate
    /\ NoTagger
    /\ NoCarry
    /\ NoSink
    /\ NoExit
    /\ NoDag
    /\ NoLookup
    /\ NoQueries

OnlyCarry ==
    /\ NoPorts
    /\ NoStationary
    /\ NoPaths
    /\ NoTags
    /\ NoCells
    /\ NoAggregate
    /\ NoTagger
    /\ NoParser
    /\ NoSink
    /\ NoExit
    /\ NoDag
    /\ NoLookup
    /\ NoQueries

OnlySink ==
    /\ NoPorts
    /\ NoStationary
    /\ NoPaths
    /\ NoTags
    /\ NoCells
    /\ NoAggregate
    /\ NoTagger
    /\ NoParser
    /\ NoCarry
    /\ NoExit
    /\ NoDag
    /\ NoLookup
    /\ NoQueries

OnlyExit ==
    /\ NoPorts
    /\ NoStationary
    /\ NoPaths
    /\ NoTags
    /\ NoCells
    /\ NoAggregate
    /\ NoTagger
    /\ NoParser
    /\ NoCarry
    /\ NoSink
    /\ NoDag
    /\ NoLookup
    /\ NoQueries

OnlyDag ==
    /\ NoPorts
    /\ NoStationary
    /\ NoPaths
    /\ NoTags
    /\ NoCells
    /\ NoAggregate
    /\ NoTagger
    /\ NoParser
    /\ NoCarry
    /\ NoSink
    /\ NoExit
    /\ NoLookup
    /\ NoQueries

OnlyLookup ==
    /\ NoPorts
    /\ NoStationary
    /\ NoPaths
    /\ NoTags
    /\ NoCells
    /\ NoAggregate
    /\ NoTagger
    /\ NoParser
    /\ NoCarry
    /\ NoSink
    /\ NoExit
    /\ NoDag
    /\ NoQueries

OnlyQueries ==
    /\ NoPorts
    /\ NoStationary
    /\ NoPaths
    /\ NoTags
    /\ NoCells
    /\ NoAggregate
    /\ NoTagger
    /\ NoParser
    /\ NoCarry
    /\ NoSink
    /\ NoExit
    /\ NoDag
    /\ NoLookup

\* (the entry points follow)

(***************************************************************************)
(* anchorages.common: AnchoragePts_from_cell_visits over the entries of    *)
(* one fine cell, delivered by CoGroupByKey in any order.                  *)
(***************************************************************************)
\* fishing_vessel_set.
fishing_vessel_set == { "mmsi1" }

\* The vessels with stationary periods in the cell.
CellVessels == << "mmsi1", "mmsi2" >>

\* sp.destination as the vessels send it.
RawDestinations == << "", " singapore", "HONG KONG" >>

\* sp.duration in days, a float.
Durations == << 1, 8 >>

\* The (md, sp) entries of the cell: every vessel with a period of every
\* duration for every port, and one period without a destination.
StationaryPeriodEntries ==
    { [md |-> CellVessels[m], destination |-> RawDestinations[d], duration |-> Durations[u]] :
        m \in 1 .. Len(CellVessels), d \in 2 .. Len(RawDestinations),
        u \in 1 .. Len(Durations) }
    \cup { [md |-> CellVessels[1], destination |-> RawDestinations[1],
            duration |-> Durations[1]] }

\* The (md, loc) entries of the cell: a vessel and the date of loc.timestamp.
ActivePointEntries ==
    { [md |-> "mmsi1", date |-> 0], [md |-> "mmsi1", date |-> 1],
      [md |-> "mmsi3", date |-> 0] }

\* The position of x in seq.
IndexIn(seq, x) == CHOOSE i \in 1 .. Len(seq) : seq[i] = x

\* The order in which the entries are produced upstream, a fixed one.
EntryRank(e) ==
    IF "date" \in DOMAIN e
    THEN (IF e.md = "mmsi1" THEN 0 ELSE 2) + e.date
    ELSE (IndexIn(CellVessels, e.md) * Len(RawDestinations)
             + IndexIn(RawDestinations, e.destination)) * Len(Durations)
         + IndexIn(Durations, e.duration)

\* The sequences of at most n entries of S in that order.
RECURSIVE EntriesInRankOrder(_, _)
EntriesInRankOrder(S, n) ==
    IF n = 0 THEN { << >> }
    ELSE LET shorter == EntriesInRankOrder(S, n - 1)
             longest == { q \in shorter : Len(q) = n - 1 }
         IN  shorter
             \cup { Append(qe[1], qe[2]) :
                      qe \in { x \in longest \X S :
                                 \/ x[1] = << >>
                                 \/ EntryRank(x[1][Len(x[1])]) <= EntryRank(x[2]) } }

\* The orders in which a group of n entries can be delivered.
Orders(n) == { f \in [1 .. n -> 1 .. n] : \A i, j \in 1 .. n : f[i] = f[j] => i = j }

Reorder(seq, f) == [i \in 1 .. Len(seq) |-> seq[f[i]]]

RECURSIVE Pow2(_)
Pow2(k) == IF k = 0 THEN 1 ELSE 2 * Pow2(k - 1)

\* The gap between the floats around n.
RECURSIVE Ulp(_, _)
Ulp(n, u) == IF n < u * Pow2(MantissaBits) THEN u ELSE Ulp(n, 2 * u)

\* The float nearest to n, the one with the even mantissa on a tie.
float(n) ==
    LET u == Ulp(n, 1)
        q == n \div u
        r == n % u
    IN  IF 2 * r < u \/ (2 * r = u /\ q % 2 = 0) THEN q * u ELSE (q + 1) * u

\* x += y on floats.
float_add(x, y) == float(x + y)

\* stationary_days after the loop over stationary_periods.
RECURSIVE stationary_days(_)
stationary_days(sps) ==
    IF sps = << >> THEN 0
    ELSE float_add(stationary_days(SubSeq(sps, 1, Len(sps) - 1)),
                   sps[Len(sps)].duration)

\* stationary_fishing_days after the loop over stationary_periods.
RECURSIVE stationary_fishing_days(_)
stationary_fishing_days(sps) ==
    IF sps = << >> THEN 0
    ELSE LET before == stationary_fishing_days(SubSeq(sps, 1, Len(sps) - 1))
         IN  IF sps[Len(sps)].md \in fishing_vessel_set
             THEN float_add(before, sps[Len(sps)].duration)
             ELSE before

\* The name a destination normalizes to: stripped and upper-cased.
NormalizedName(d) == IF d = " singapore" THEN "SINGAPORE" ELSE d

\* The normalized names that are noise.
NoiseNames == { "" }

\* normalized_valid_names: the normalized names that are not noise, in the
\* order of the entries.
RECURSIVE normalized_valid_names(_)
normalized_valid_names(sps) ==
    IF sps = << >> THEN << >>
    ELSE LET before == normalized_valid_names(SubSeq(sps, 1, Len(sps) - 1))
             name == NormalizedName(sps[Len(sps)].destination)
         IN  IF name \in NoiseNames THEN before ELSE Append(before, name)

\* The number of times name occurs in names.
CountOf(names, name) == Cardinality({ i \in 1 .. Len(names) : names[i] = name })

\* The distinct names in the order of their first occurrence.
FirstOccurrences(names) ==
    SelectSeq([i \in 1 .. Len(names) |->
                  IF \E j \in 1 .. i - 1 : names[j] = names[i] THEN "" ELSE names[i]],
              LAMBDA n : n # "")

\* The order of the slots the names hash to in a dict.
HashOrder == << "SINGAPORE", "HONG KONG" >>

\* The orders in which a dict can hand out its keys: by slot ("hash"), or,
\* for keys that collide and for dicts that keep the insertion order, in
\* the order the keys were inserted ("insertion").
DictOrders == { "hash", "insertion" }

\* The keys of Counter(names) in the order the dict hands them out.
CounterKeys(names, order) ==
    IF order = "insertion"
    THEN FirstOccurrences(names)
    ELSE SelectSeq(HashOrder, LAMBDA n : CountOf(names, n) > 0)

RemoveAt(seq, i) == SubSeq(seq, 1, i - 1) \o SubSeq(seq, i + 1, Len(seq))

\* Mutant: the first n keys, whatever their counts.
RECURSIVE most_common_FirstSeen(_, _, _)
most_common_FirstSeen(keys, names, n) ==
    IF n = 0 \/ keys = << >> THEN << >>
    ELSE << << keys[1], CountOf(names, keys[1]) >> >>
         \o most_common_FirstSeen(Tail(keys), names, n - 1)

\* Counter.most_common(n): the n keys with the largest counts, largest
\* first, keys with equal counts in the order the dict hands them out.
RECURSIVE most_common(_, _, _)
most_common(keys, names, n) ==
    IF n = 0 \/ keys = << >> THEN << >>
    ELSE LET best == CHOOSE i \in 1 .. Len(keys) :
                        \A j \in 1 .. Len(keys) :
                            /\ CountOf(names, keys[j]) <= CountOf(names, keys[i])
                            /\ j < i => CountOf(names, keys[j]) < CountOf(names, keys[i])
         IN  << << keys[best], CountOf(names, keys[best]) >> >>
             \o most_common(RemoveAt(keys, best), names, n - 1)

top_destinations(sps, order) ==
    LET all_destinations == normalized_valid_names(sps)
    IN  most_common(CounterKeys(all_destinations, order), all_destinations, dest_limit)

\* The fields of the AnchoragePoint that are sets, counts, days and
\* destinations.
AnchoragePointOf(v, order) ==
    LET sps == v.stationary_periods
        aps == v.active_points
        cell_vessels == { sps[i].md : i \in 1 .. Len(sps) }
        active_mmsi == { aps[i].md : i \in 1 .. Len(aps) }
    IN  [total_visits |-> Len(sps),
         vessels |-> cell_vessels,
         fishing_vessels |-> cell_vessels \cap fishing_vessel_set,
         top_destinations |-> top_destinations(sps, order),
         active_mmsi |-> Cardinality(active_mmsi),
         total_mmsi |-> Cardinality(cell_vessels \cup active_mmsi),
         stationary_mmsi_days |-> stationary_days(sps),
         stationary_fishing_mmsi_days |-> stationary_fishing_days(sps),
         active_mmsi_days |->
             Cardinality({ << aps[i].md, aps[i].date >> : i \in 1 .. Len(aps) })]

\* AnchoragePts_from_cell_visits on the value of one cell.
AnchoragePts_from_value(v, order) ==
    IF Len(v.stationary_periods) # 0
    THEN << AnchoragePointOf(v, order) >>
    ELSE << >>

InitAggregate ==
    /\ OnlyAggregate
    /\ aggregate_stage = "produced"
    /\ cell_visits \in
          [stationary_periods : EntriesInRankOrder(StationaryPeriodEntries, MaxAggregated),
           active_points : EntriesInRankOrder(ActivePointEntries, Len(CellVessels))]
    /\ value = [stationary_periods |-> << >>, active_points |-> << >>]
    /\ dict_order \in DictOrders
    /\ aggregated = << >>

\* CoGroupByKey hands the entries of the cell over in some order.
CogroupOnS2id ==
    /\ aggregate_stage = "produced"
    /\ \E f \in Orders(Len(cell_visits.stationary_periods)),
          g \in Orders(Len(cell_visits.active_points)) :
          value' = [stationary_periods |-> Reorder(cell_visits.stationary_periods, f),
                    active_points |-> Reorder(cell_visits.active_points, g)]
    /\ aggregate_stage' = "cogrouped"
    /\ UNCHANGED << not_aggregate_vars, cell_visits, dict_order, aggregated >>

CreateAnchoragePointsOfCell ==
    /\ aggregate_stage = "cogrouped"
    /\ aggregated' = AnchoragePts_from_value(value, dict_order)
    /\ aggregate_stage' = "created"
    /\ UNCHANGED << not_aggregate_vars, cell_visits, value, dict_order >>

NextAggregate == CogroupOnS2id \/ CreateAnchoragePointsOfCell

SpecAggregate == InitAggregate /\ [][NextAggregate]_vars

(***************************************************************************)
(* anchorages.common: tag_apts_with_nbr_s2ids over the anchorage points of *)
(* a patch of cells inside one face of the cube.                           *)
(***************************************************************************)
\* A cell id: its level and the (i, j) of its corner, counted in cells of
\* the fine level.
CellId(level, i, j) == [level |-> level, i |-> i, j |-> j]

\* The token of a cell id.
to_token(cell_id) == << cell_id.level, cell_id.i, cell_id.j >>

from_token(token) == CellId(token[1], token[2], token[3])

\* get_size_ij: the side of a cell in cells of the fine level.
get_size_ij(level) == Pow2(ANCHORAGES_S2_SCALE - level)

\* parent(level): the cell of that level that holds cell_id.
parent(cell_id, level) ==
    LET size == get_size_ij(level)
    IN  CellId(level, cell_id.i - (cell_id.i % size), cell_id.j - (cell_id.j % size))

\* Mutant: the neighbors across the four edges only.
get_all_neighbors_Edges(cell_id, nbr_level) ==
    LET size == get_size_ij(cell_id.level)
        i == cell_id.i
        j == cell_id.j
    IN  << CellId(nbr_level, i, j - size), CellId(nbr_level, i, j + size),
           CellId(nbr_level, i - size, j), CellId(nbr_level, i + size, j) >>

\* get_all_neighbors(nbr_level) for nbr_level = the level of the cell, in
\* the order of its loop over k = -size, 0, size: west and east of the row
\* below, south and north, west and east, west and east of the row above.
get_all_neighbors(cell_id, nbr_level) ==
    LET size == get_size_ij(cell_id.level)
        i == cell_id.i
        j == cell_id.j
    IN  << CellId(nbr_level, i - size, j - size), CellId(nbr_level, i + size, j - size),
           CellId(nbr_level, i, j - size), CellId(nbr_level, i, j + size),
           CellId(nbr_level, i - size, j), CellId(nbr_level, i + size, j),
           CellId(nbr_level, i - size, j + size), CellId(nbr_level, i + size, j + size) >>

\* The anchorage points of the patch: two fine cells in every coarse cell.
PatchAnchoragePoints ==
    { [s2id |-> to_token(CellId(ANCHORAGES_S2_SCALE,
                                a * (get_size_ij(VISITS_S2_SCALE) \div 2),
                                b * get_size_ij(VISITS_S2_SCALE)))] :
        a \in 0 .. 2 * PatchSide - 1, b \in 0 .. PatchSide - 1 }

\* The anchorage points are read in the order of their tokens.
TokenBefore(s, t) == s[2] < t[2] \/ (s[2] = t[2] /\ s[3] < t[3])

tag_apts_with_nbr_s2ids(apt) ==
    LET s2_cell_id == parent(from_token(apt.s2id), VISITS_S2_SCALE)
        nbrs == get_all_neighbors(s2_cell_id, VISITS_S2_SCALE)
        s2ids == << to_token(s2_cell_id) >>
                     \o [k \in 1 .. Len(nbrs) |-> to_token(nbrs[k])]
    IN  [k \in 1 .. Len(s2ids) |-> << s2ids[k], apt >>]

InitTagger ==
    /\ OnlyTagger
    /\ anchorage_pts = << >>
    /\ tagged_apts = << >>

TagAptsWithNbrS2ids ==
    /\ Len(anchorage_pts) < MaxAnchorages
    /\ \E apt \in PatchAnchoragePoints :
          /\ \A k \in 1 .. Len(anchorage_pts) : TokenBefore(anchorage_pts[k].s2id, apt.s2id)
          /\ anchorage_pts' = Append(anchorage_pts, apt)
          /\ tagged_apts' = tagged_apts \o tag_apts_with_nbr_s2ids(apt)
    /\ UNCHANGED not_tagger_vars

NextTagger == TagAptsWithNbrS2ids

SpecTagger == InitTagger /\ [][NextTagger]_vars

(***************************************************************************)
(* pipe_anchorages.records: VesselRecord.tagged_from_msg.                  *)
(***************************************************************************)
\* A field of a message that holds a number: << >> for null, << n >> for n.
\* Latitudes and longitudes are in degrees, speeds in units of 0.1 knot.
Null == << >>

Lats == { Null, << -91 >>, << -90 >>, << 90 >>, << 91 >> }

Lons == { Null, << -180 >>, << 181 >> }

MsgSpeeds == { Null, << -1 >>, << 0 >>, << 1022 >>, << 1023 >> }

MsgDestinations == { None, "", "SINGAPORE" }

\* msg['timestamp']: the text of a time (here its tick) and of a time zone.
MsgTimestamps == { << "1", "UTC" >>, << "2", "UTC" >> }

Messages ==
    [ident : { "seg1" }, lat : Lats, lon : Lons, speed : MsgSpeeds,
     destination : MsgDestinations, timestamp : MsgTimestamps]

is_location_message(m) == m.lat # Null /\ m.lon # Null /\ m.speed # Null

has_valid_location(m) ==
    /\ -90 <= m.lat[1] /\ m.lat[1] <= 90
    /\ -180 <= m.lon[1] /\ m.lon[1] <= 180
    /\ 0 <= m.speed[1] /\ m.speed[1] <= 1022

\* Mutant: the empty destination counts as a destination.
has_destination_Empty(m) == m.destination # None

has_destination(m) == m.destination \notin { "", None }

\* datetime.strptime(msg['timestamp'], ...).replace(tzinfo=pytz.utc).
strptime_utc(text) ==
    [tick |-> IF text[1] = "1" THEN 1 ELSE 2, tzinfo |-> "UTC"]

InvalidRecord_from_msg(m) ==
    [type |-> "InvalidRecord", timestamp |-> strptime_utc(m.timestamp)]

VesselInfoRecord_from_msg(m) ==
    [type |-> "VesselInfoRecord", timestamp |-> strptime_utc(m.timestamp),
     destination |-> m.destination]

VesselLocationRecord_from_msg(m) ==
    [type |-> "VesselLocationRecord", timestamp |-> strptime_utc(m.timestamp),
     location |-> << m.lat[1], m.lon[1] >>, speed |-> m.speed[1],
     destination |-> None]

tagged_from_msg(m) ==
    IF is_location_message(m) /\ has_valid_location(m)
    THEN << m.ident, VesselLocationRecord_from_msg(m) >>
    ELSE IF has_destination(m)
         THEN << m.ident, VesselInfoRecord_from_msg(m) >>
         ELSE << m.ident, InvalidRecord_from_msg(m) >>

InitParser ==
    /\ OnlyParser
    /\ msg = << >>
    /\ tagged_record = << >>

TaggedFromMsg ==
    /\ \E m \in Messages :
          /\ msg' = << m >>
          /\ tagged_record' = tagged_from_msg(m)
    /\ UNCHANGED not_parser_vars

NextParser == TaggedFromMsg

SpecParser == InitParser /\ [][NextParser]_vars

(***************************************************************************)
(* pipe_anchorages.port_events_pipeline: how run builds initial_states     *)
(* from the date-sharded state table.                                      *)
(***************************************************************************)
\* The segments that may have a row in a state partition.
SegIds == { "seg1", "seg2" }

\* The rows a state partition may hold: at most one for each segment.
StateRowSets ==
    { rows \in SUBSET [seg_id : SegIds, state : { AT_SEA, IN_PORT }] :
        \A r, q \in rows : r.seg_id = q.seg_id => r = q }

\* The state partitions a date may have: none, or one with rows.
StatePartitions == { NoTable } \cup [exists : { TRUE }, rows : StateRowSets]

\* Mutant: without the partition of prev_date, the latest earlier partition
\* is read.
initial_states_by_seg_id_Latest(table, sd) ==
    LET earlier == { d \in DOMAIN table : d < sd /\ table[d].exists }
    IN  IF earlier = {} THEN {}
        ELSE { << x.seg_id, x >> :
                 x \in table[CHOOSE d \in earlier : \A e \in earlier : e <= d].rows }

\* initial_states: the rows of the partition of prev_date keyed by seg_id,
\* or beam.Create([]) without that partition.
initial_states_by_seg_id(table, sd) ==
    IF state_table_exists(table, prev_date(sd))
    THEN { << x.seg_id, x >> : x \in table[prev_date(sd)].rows }
    ELSE {}

InitCarry ==
    /\ OnlyCarry
    /\ carry_pc = "start"
    /\ state_table \in [0 .. MaxDate -> StatePartitions]
    /\ run_start_date \in 1 .. MaxDate + 1
    /\ initial_states_pc = {}
    /\ warnings = << >>
    /\ tables_read = {}

\* Lines 87-105 of run: the partition of prev_date is looked up and, when
\* it is found, read.
ReadInitialStates ==
    /\ carry_pc = "start"
    /\ initial_states_pc' = initial_states_by_seg_id(state_table, run_start_date)
    /\ IF state_table_exists(state_table, prev_date(run_start_date))
       THEN /\ tables_read' = { prev_date(run_start_date) }
            /\ UNCHANGED warnings
       ELSE /\ tables_read' = {}
            /\ warnings' = Append(warnings, "No state table found, using empty table")
    /\ carry_pc' = "read"
    /\ UNCHANGED << not_carry_vars, state_table, run_start_date >>

NextCarry == ReadInitialStates

SpecCarry == InitCarry /\ [][NextCarry]_vars

(***************************************************************************)
(* pipe_anchorages.transforms.sink: EventSink and EventStateSink under the *)
(* attempts of one task of the DAG.  The batch starts on date 1.           *)
(***************************************************************************)
EventSink_write_disposition_Append == "WRITE_APPEND"

EventSink_write_disposition == "WRITE_TRUNCATE"

EventStateSink_write_disposition == "WRITE_TRUNCATE"

\* The dates of a batch that ends on last.
BatchDates(last) == 1 .. last

\* The events CreateInOutEvents may output for those dates.
BatchEvents(last) ==
    [timestamp : { t \in 0 .. (last + 1) * OneDay - 1 : DateOf(t) \in BatchDates(last) },
     event_type : { "PORT_ENTRY" }]

\* The states CreateInOutEvents may output for those dates: one for each
\* date.
BatchStates(last) ==
    { rows \in SUBSET [seg_id : { "seg1" }, date : BatchDates(last),
                       state : { IN_PORT }] :
        \A d \in BatchDates(last) : Cardinality({ x \in rows : x.date = d }) = 1 }

\* EventSink: encode_datetimes_to_s and TimestampedValue(x, x['timestamp']).
EventSinkRow(x) ==
    [window |-> x.timestamp,
     row |-> [timestamp |-> total_seconds(x.timestamp), event_type |-> x.event_type]]

\* EventStateSink: encode_datetimes_to_s and TimestampedValue(x[1], x[0]).
EventStateSinkRow(x) ==
    [window |-> x.date * OneDay,
     row |-> [seg_id |-> x.seg_id, date |-> ToString(x.date), state |-> x.state]]

\* The rows of a shard in the order the load job writes them.
RECURSIVE RowsInOrder(_)
RowsInOrder(S) ==
    IF S = {} THEN << >>
    ELSE LET first == CHOOSE x \in S : \A y \in S : x.window <= y.window
         IN  << first.row >> \o RowsInOrder(S \ { first })

\* The rows a sink's elements put into the shard of date d.
ShardRows(elements, d) == RowsInOrder({ e \in elements : DateOf(e.window) = d })

\* The dates of the shards a sink's elements go to.
ShardDates(elements) == { DateOf(e.window) : e \in elements }

\* The load job of one date shard.
LoadShard(shard, rows, write_disposition) ==
    IF write_disposition = "WRITE_TRUNCATE" THEN rows ELSE shard \o rows

EventSinkElements == { EventSinkRow(x) : x \in batch_events }

EventStateSinkElements == { EventStateSinkRow(x) : x \in batch_states }

InitSink ==
    /\ OnlySink
    /\ sink_pc = "running"
    /\ try_number = 1
    /\ batch_end_date \in 1 .. MaxDate + 1
    /\ batch_events \in SUBSET BatchEvents(batch_end_date)
    /\ batch_states \in BatchStates(batch_end_date)
    /\ event_shards = [d \in BatchDates(MaxDate + 1) |-> << >>]
    /\ state_shards = [d \in BatchDates(MaxDate + 1) |-> << >>]
    /\ loaded = {}
    /\ load_count = [s \in { "events", "states" } \X BatchDates(MaxDate + 1) |-> 0]

\* The load job of one date shard of the event table commits.
WriteInOutEvents ==
    /\ sink_pc = "running"
    /\ \E d \in ShardDates(EventSinkElements) :
          /\ << "events", d >> \notin loaded
          /\ event_shards' =
                [event_shards EXCEPT ![d] = LoadShard(@, ShardRows(EventSinkElements, d),
                                                      EventSink_write_disposition)]
          /\ loaded' = loaded \cup { << "events", d >> }
          /\ load_count' = [load_count EXCEPT ![<< "events", d >>] = @ + 1]
    /\ UNCHANGED << not_sink_vars, sink_pc, try_number, batch_end_date, batch_events,
                    batch_states, state_shards >>

\* The load job of one date shard of the state table commits.
WriteState ==
    /\ sink_pc = "running"
    /\ \E d \in ShardDates(EventStateSinkElements) :
          /\ << "states", d >> \notin loaded
          /\ state_shards' =
                [state_shards EXCEPT ![d] = LoadShard(@, ShardRows(EventStateSinkElements, d),
                                                      EventStateSink_write_disposition)]
          /\ loaded' = loaded \cup { << "states", d >> }
          /\ load_count' = [load_count EXCEPT ![<< "states", d >>] = @ + 1]
    /\ UNCHANGED << not_sink_vars, sink_pc, try_number, batch_end_date, batch_events,
                    batch_states, event_shards >>

\* The attempt fails: the task is tried again while it has retries left.
FailAttempt ==
    /\ sink_pc = "running"
    /\ IF try_number <= retries
       THEN /\ try_number' = try_number + 1
            /\ loaded' = {}
            /\ UNCHANGED sink_pc
       ELSE /\ sink_pc' = "failed"
            /\ UNCHANGED << try_number, loaded >>
    /\ UNCHANGED << not_sink_vars, batch_end_date, batch_events, batch_states,
                    event_shards, state_shards, load_count >>

\* The attempt succeeds: every shard it has rows for is loaded.
FinishAttempt ==
    /\ sink_pc = "running"
    /\ loaded = ({ "events" } \X ShardDates(EventSinkElements))
                   \cup ({ "states" } \X ShardDates(EventStateSinkElements))
    /\ sink_pc' = "done"
    /\ UNCHANGED << not_sink_vars, try_number, batch_end_date, batch_events, batch_states,
                    event_shards, state_shards, loaded, load_count >>

NextSink == WriteInOutEvents \/ WriteState \/ FailAttempt \/ FinishAttempt

SpecSink == InitSink /\ [][NextSink]_vars

(***************************************************************************)
(* port_events: the exit status of run and of __main__, and the pipeline   *)
(* job that p.run() hands to the runner.                                   *)
(***************************************************************************)
\* PipelineState: the states of a pipeline job and the states that follow
\* each of them.
PipelineStates == { "UNKNOWN", "PENDING", "RUNNING", "DONE", "FAILED", "CANCELLED" }

NextPipelineStates(s) ==
    CASE s = "UNKNOWN" -> { "PENDING" }
      [] s = "PENDING" -> { "RUNNING", "FAILED", "CANCELLED" }
      [] s = "RUNNING" -> { "DONE", "FAILED", "CANCELLED" }
      [] OTHER -> {}

success_states == { "DONE", "RUNNING", "UNKNOWN", "PENDING" }

\* return 0 if result.state in success_states else 1
run_status(result_state) == IF result_state \in success_states THEN 0 ELSE 1

InitExit ==
    /\ OnlyExit
    /\ exit_try = 1
    /\ job_states = << "UNKNOWN" >>
    /\ exit_statuses = << Null >>

\* The runner moves the job of some attempt on; the process of that attempt
\* may have exited already.
JobAdvances ==
    /\ \E k \in 1 .. Len(job_states) :
          \E s \in NextPipelineStates(job_states[k]) :
              job_states' = [job_states EXCEPT ![k] = s]
    /\ UNCHANGED << not_exit_vars, exit_try, exit_statuses >>

\* p.run() returns with the job in the state it is in, run returns its
\* status and __main__ exits with it.
RunReturns ==
    /\ exit_statuses[exit_try] = Null
    /\ exit_statuses' =
          [exit_statuses EXCEPT ![exit_try] = << run_status(job_states[exit_try]) >>]
    /\ UNCHANGED << not_exit_vars, exit_try, job_states >>

\* run raises: __main__ logs the exception and raises it again, and the
\* process exits with status 1.
RunRaises ==
    /\ exit_statuses[exit_try] = Null
    /\ exit_statuses' = [exit_statuses EXCEPT ![exit_try] = << 1 >>]
    /\ UNCHANGED << not_exit_vars, exit_try, job_states >>

\* The task exited with a status other than 0 and has a retry left.
RetryTask ==
    /\ exit_statuses[exit_try] \notin { Null, << 0 >> }
    /\ exit_try <= retries
    /\ exit_try' = exit_try + 1
    /\ job_states' = Append(job_states, "UNKNOWN")
    /\ exit_statuses' = Append(exit_statuses, Null)
    /\ UNCHANGED not_exit_vars

NextExit == JobAdvances \/ RunReturns \/ RunRaises \/ RetryTask

SpecExit == InitExit /\ [][NextExit]_vars

(***************************************************************************)
(* port_events_dag: the daily runs of the DAG, their three tasks, and the  *)
(* state partition each run reads and writes.                              *)
(***************************************************************************)
RunDates == 1 .. MaxRunDate

\* yesterday_exists >> today_exists >> find_port_events
DagTasks == << "yesterday_exists", "today_exists", "create-port-events" >>

find_port_events == 3

depends_on_past == FALSE

NewTaskInstance == [state |-> "none", try_number |-> 0]

\* The table a sensor waits for: YESTERDAY_TABLE or TODAY_TABLE of the run.
SensorTable(d, t) == IF DagTasks[t] = "yesterday_exists" THEN d - 1 ELSE d

TaskState(d, t) == task_instances[d][t].state

RunFailed(d) == \E t \in 1 .. Len(DagTasks) : TaskState(d, t) = "failed"

RunSucceeded(d) == \A t \in 1 .. Len(DagTasks) : TaskState(d, t) = "success"

\* A run that is created and neither failed nor succeeded.
RunActive(d) == d <= dag_runs /\ ~ RunFailed(d) /\ ~ RunSucceeded(d)

ActiveRuns == { d \in RunDates : RunActive(d) }

SetTask(d, t, st, try) ==
    [task_instances EXCEPT ![d][t] = [state |-> st, try_number |-> try]]

InitDag ==
    /\ OnlyDag
    /\ dag_runs = 0
    /\ task_instances = [d \in RunDates |-> [t \in 1 .. Len(DagTasks) |-> NewTaskInstance]]
    /\ carry_over = [d \in RunDates |-> "none"]
    /\ input_partitions = { 0 }
    /\ state_partitions = { 0 }

\* The input table of the next date is created.
InputTableArrives ==
    /\ \E d \in RunDates :
          /\ d \notin input_partitions
          /\ d - 1 \in input_partitions
          /\ input_partitions' = input_partitions \cup { d }
    /\ UNCHANGED << not_dag_vars, dag_runs, task_instances, carry_over, state_partitions >>

\* The scheduler creates the run of the next date.
CreateDagRun ==
    /\ dag_runs < MaxRunDate
    /\ Cardinality(ActiveRuns) < max_active_runs
    /\ dag_runs' = dag_runs + 1
    /\ UNCHANGED << not_dag_vars, task_instances, carry_over, input_partitions, state_partitions >>

\* A task of an active run starts, or starts again after a failure, once
\* the task before it has succeeded; create-port-events reads the state
\* partition of the day before, or falls back to no initial states.
StartTask ==
    /\ \E d \in RunDates, t \in 1 .. Len(DagTasks) :
          /\ RunActive(d)
          /\ TaskState(d, t) \in { "none", "up_for_retry" }
          /\ t > 1 => TaskState(d, t - 1) = "success"
          /\ depends_on_past => (d = 1 \/ TaskState(d - 1, t) = "success")
          /\ task_instances' = SetTask(d, t, "running", task_instances[d][t].try_number + 1)
          /\ carry_over' =
                IF t = find_port_events
                THEN [carry_over EXCEPT ![d] =
                         IF d - 1 \in state_partitions THEN "state" ELSE "empty"]
                ELSE carry_over
    /\ UNCHANGED << not_dag_vars, dag_runs, input_partitions, state_partitions >>

\* A sensor finds its table, or create-port-events finishes and its state
\* partition is written.
TaskSucceeds ==
    /\ \E d \in RunDates, t \in 1 .. Len(DagTasks) :
          /\ TaskState(d, t) = "running"
          /\ t # find_port_events => SensorTable(d, t) \in input_partitions
          /\ task_instances' = SetTask(d, t, "success", task_instances[d][t].try_number)
          /\ state_partitions' =
                IF t = find_port_events THEN state_partitions \cup { d } ELSE state_partitions
    /\ UNCHANGED << not_dag_vars, dag_runs, carry_over, input_partitions >>

\* A sensor times out without its table, or create-port-events fails: the
\* task is retried while it has retries left.
TaskFails ==
    /\ \E d \in RunDates, t \in 1 .. Len(DagTasks) :
          /\ TaskState(d, t) = "running"
          /\ t # find_port_events => SensorTable(d, t) \notin input_partitions
          /\ task_instances' =
                SetTask(d, t,
                        IF task_instances[d][t].try_number <= retries
                        THEN "up_for_retry" ELSE "failed",
                        task_instances[d][t].try_number)
    /\ UNCHANGED << not_dag_vars, dag_runs, carry_over, input_partitions, state_partitions >>

NextDag == InputTableArrives \/ CreateDagRun \/ StartTask \/ TaskSucceeds \/ TaskFails

SpecDag == InitDag /\ [][NextDag]_vars

(***************************************************************************)
(* anchorages.port_visits: the anchorage map of run, tag_path, and the     *)
(* lookup of find_in_out_events, over a row of fine cells of the patch.    *)
(***************************************************************************)
PseudoAnchorage(s2id, port_name) == [s2id |-> s2id, port_name |-> port_name]

\* The fine cell i of the row that crosses the middle of the patch.
RowCell(i) == to_token(CellId(ANCHORAGES_S2_SCALE, i, get_size_ij(VISITS_S2_SCALE)))

\* The anchorage files read: A and B in one coarse cell, in neighbouring
\* coarse cells, in coarse cells two apart, and files with one of them.
PortFiles ==
    { f \in SUBSET { PseudoAnchorage(RowCell(14), "A"), PseudoAnchorage(RowCell(18), "A"),
                     PseudoAnchorage(RowCell(22), "B"), PseudoAnchorage(RowCell(34), "B") } :
        /\ f # {}
        /\ \A x, y \in f : x.port_name = y.port_name => x = y }

\* The fine cells of the records of a path.
RecordCells == { 10, 15, 20, 21, 30, 40 }

\* TagWithVisitS2id: the key of an anchorage in the anchorage map.
VisitS2id(x) == to_token(parent(from_token(x.s2id), VISITS_S2_SCALE))

\* beam.pvalue.AsDict over the keyed anchorages: a dict holds one value for
\* a key, whichever of the anchorages of that key came last.
AsDictChoices(pairs) ==
    LET keys == { VisitS2id(x) : x \in pairs }
    IN  { d \in [keys -> pairs] : \A k \in keys : VisitS2id(d[k]) = k }

\* tag_path: the coarse cells of the records of the path and their
\* neighbors.
tag_path_s2ids(path_records) ==
    UNION { LET s2_cell_id == parent(from_token(path_records[k].s2id), VISITS_S2_SCALE)
                nbrs == get_all_neighbors(s2_cell_id, VISITS_S2_SCALE)
            IN  { to_token(s2_cell_id) } \cup { to_token(nbrs[n]) : n \in 1 .. Len(nbrs) } :
            k \in 1 .. Len(path_records) }

\* The distance between two fine cells of the row.
row_distance(s2id, t2id) ==
    FineCellSide * location_distance(from_token(s2id).i, from_token(t2id).i)

\* anchorages = [anchorage_map[x] for x in s2ids if x in anchorage_map]
lookup_anchorages(s2ids, anchorage_map) ==
    { anchorage_map[x] : x \in s2ids \cap DOMAIN anchorage_map }

\* A record as the finder built from the anchorages sees it: its distance
\* to each of them, the others out of reach.
SeenBy(anchorages, r) ==
    [timestamp |-> r.timestamp, speed |-> r.speed,
     location |-> [a \in Anchorages |->
                      IF \E x \in anchorages : x.port_name = a
                      THEN row_distance(r.s2id,
                                        (CHOOSE x \in anchorages : x.port_name = a).s2id)
                      ELSE Far]]

\* The loop of find_in_out_events over the records from the k-th on.
RECURSIVE in_out_loop(_, _, _, _, _)
in_out_loop(anchorages, path_records, k, st, cur) ==
    IF k > Len(path_records) THEN << >>
    ELSE LET r == SeenBy(anchorages, path_records[k])
             s == in_out_step(st, cur, r, port_entry_dist, port_exit_dist)
         IN  s.new \o in_out_loop(anchorages, path_records, k + 1, s.state, s.current_port)

InitLookup ==
    /\ OnlyLookup
    /\ port_input_data = {}
    /\ port_data = << >>
    /\ tagged_path = << >>
    /\ lookup_pc = "ReadPort"
    /\ lookups = << >>
    /\ lookup_events = << >>

\* run: the anchorage map is built from the anchorages read.
ReadPort ==
    /\ lookup_pc = "ReadPort"
    /\ \E f \in PortFiles :
          /\ port_input_data' = f
          /\ port_data' \in AsDictChoices(f)
    /\ lookup_pc' = "tag_path"
    /\ UNCHANGED << not_lookup_vars, tagged_path, lookups, lookup_events >>

\* tag_path over the records of one vessel, in the order of their
\* timestamps.
TagPath ==
    /\ lookup_pc = "tag_path"
    /\ \E n \in 1 .. MaxTaggedPath :
          \E cells \in [1 .. n -> RecordCells] :
              LET path_records == [k \in 1 .. n |->
                                      [timestamp |-> k, speed |-> stopped_end_speed,
                                       s2id |-> RowCell(cells[k])]]
              IN  tagged_path' = << tag_path_s2ids(path_records), path_records >>
    /\ lookup_pc' = "find_in_out_events"
    /\ UNCHANGED << not_lookup_vars, port_input_data, port_data, lookups, lookup_events >>

\* find_in_out_events over the tagged path.
FindInOutEventsOfPath ==
    /\ lookup_pc = "find_in_out_events"
    /\ LET s2ids == tagged_path[1]
           path_records == tagged_path[2]
           anchorages == lookup_anchorages(s2ids, port_data)
           buffer_dist == Max(port_entry_dist, port_exit_dist)
       IN  /\ lookups' = [k \in 1 .. Len(path_records) |->
                             is_within_dist(buffer_dist, SeenBy(anchorages, path_records[k]))]
           /\ lookup_events' = in_out_loop(anchorages, path_records, 1, InitialState, None)
    /\ lookup_pc' = "done"
    /\ UNCHANGED << not_lookup_vars, port_input_data, port_data, tagged_path >>

NextLookup == ReadPort \/ TagPath \/ FindInOutEventsOfPath

SpecLookup == InitLookup /\ [][NextLookup]_vars

(***************************************************************************)
(* port_events: create_queries, the generator of the queries of a run.     *)
(***************************************************************************)
QueryDates == 0 .. MaxQueryDate

Min(a, b) == IF a <= b THEN a ELSE b

\* start_window = end_window + datetime.timedelta(days=1)
next_start_window(end_window_q) == end_window_q + 1

\* Mutant: a window always spans shift days, past end_date if need be.
query_end_window_NoMin(start_window_q, end_date_q) == start_window_q + shift

\* end_window = min(start_window + datetime.timedelta(days=shift), end_date)
query_end_window(start_window_q, end_date_q) == Min(start_window_q + shift, end_date_q)

InitQueries ==
    /\ OnlyQueries
    /\ query_args \in [start_date : QueryDates, end_date : QueryDates]
    /\ query_window = query_args.start_date
    /\ queries = << >>
    /\ queries_pc = "while"

\* One pass of the loop: the query of the window is yielded.
YieldQuery ==
    /\ queries_pc = "while"
    /\ query_window <= query_args.end_date
    /\ LET end_window_q == query_end_window(query_window, query_args.end_date)
       IN  /\ queries' = Append(queries, [start |-> query_window, end |-> end_window_q])
           /\ query_window' = next_start_window(end_window_q)
    /\ UNCHANGED << not_queries_vars, query_args, queries_pc >>

\* The loop ends and the generator is exhausted.
StopQueries ==
    /\ queries_pc = "while"
    /\ ~ (query_window <= query_args.end_date)
    /\ queries_pc' = "done"
    /\ UNCHANGED << not_queries_vars, query_args, query_window, queries >>

NextQueries == YieldQuery \/ StopQueries

SpecQueries == InitQueries /\ [][NextQueries]_vars /\ WF_vars(NextQueries)

(***************************************************************************)
(* What the claims speak of, read off the records and the event stream.    *)
(***************************************************************************)
\* The distance from a record to its nearest anchorage.
NearestDist(r) == distance(r.location, Nearest(r.location))

\* Where a record lies: within the entry distance, beyond the exit distance
\* (or with no anchorage in reach), or between the two.
Zone(r) ==
    IF NearestDist(r) < port_entry_dist THEN "in"
    ELSE IF NearestDist(r) > port_exit_dist THEN "out"
    ELSE "mid"

Decided(n) == { i \in 1 .. n : Zone(records[i]) # "mid" }

\* The zone of the last record before records[j] that is not between the
\* thresholds ("none" when there is none).
LastDecidedBefore(j) ==
    IF Decided(j - 1) = {} THEN "none" ELSE Zone(records[MaxOf(Decided(j - 1))])

\* The zone of the first record that is not between the thresholds.
FirstZone ==
    IF Decided(Len(records)) = {} THEN "none"
    ELSE Zone(records[MinOf(Decided(Len(records)))])

\* The number of events of type t among the first n events of seq.
CountType(seq, t, n) == Cardinality({ i \in 1 .. n : IsType(seq[i], t) })

\* PORT_ENTRY events before position i that no PORT_EXIT before i matched.
UnmatchedEntries(seq, i) ==
    CountType(seq, "PORT_ENTRY", i - 1) - CountType(seq, "PORT_EXIT", i - 1)

Handled == rcd.timestamp >= 0

EmittedType(t) == \E i \in 1 .. Len(emitted) : IsType(emitted[i], t)

(***************************************************************************)
(* C1                                                                      *)
(***************************************************************************)
\* C1 as stated: in the stream find_in_out_events emits, every PORT_EXIT is
\* preceded by exactly one PORT_ENTRY that no earlier PORT_EXIT matched,
\* wherever the first record lies.
C1_ExitHasUnmatchedEntry ==
    pipeline = "anchorages.port_visits" =>
        \A i \in 1 .. Len(events) :
            IsType(events[i], "PORT_EXIT") => UnmatchedEntries(events, i) = 1

\* C1 amended: a PORT_EXIT that is not the first event directly follows the
\* PORT_ENTRY it matches; the stream starts with a PORT_EXIT that has no
\* PORT_ENTRY exactly when the first record that decides the state lies
\* within the entry distance (the loop starts in no state and emits no
\* PORT_ENTRY for a vessel first seen in port); when that record lies
\* beyond the exit distance every PORT_EXIT has exactly one unmatched
\* PORT_ENTRY before it.
C1_ExitMatchedUnlessFirstSeenInPort ==
    pipeline = "anchorages.port_visits" =>
        /\ \A i \in 1 .. Len(events) :
              IsType(events[i], "PORT_EXIT") =>
                  /\ i > 1 => IsType(events[i - 1], "PORT_ENTRY")
                  /\ i = 1 => FirstZone = "in"
                  /\ FirstZone = "out" => UnmatchedEntries(events, i) = 1
        /\ (FirstZone = "in" /\ events # << >>) => IsType(events[1], "PORT_EXIT")

\* A vessel first seen in port has left, come back and left again.
C1_Witness ==
    /\ pipeline = "anchorages.port_visits"
    /\ Len(events) = 3
    /\ IsType(events[1], "PORT_EXIT")
    /\ IsType(events[3], "PORT_EXIT")

(***************************************************************************)
(* C5                                                                      *)
(***************************************************************************)
\* C5 as stated: every event written by a run has a timestamp within
\* [start_date, end_date]; events of the warm-up window are not written.
C5_EventsWithinDates ==
    pipeline = "anchorages.port_visits" =>
        \A i \in 1 .. Len(events) :
            /\ start_date <= DateOf(events[i].timestamp)
            /\ DateOf(events[i].timestamp) <= end_date

(***************************************************************************)
(* C6                                                                      *)
(***************************************************************************)
\* The records that come within the entry distance after the vessel was
\* last beyond the exit distance, and the converse.
CrossingsIn ==
    { j \in 1 .. Len(records) :
        Zone(records[j]) = "in" /\ LastDecidedBefore(j) = "out" }

CrossingsOut ==
    { j \in 1 .. Len(records) :
        Zone(records[j]) = "out" /\ LastDecidedBefore(j) = "in" }

EnteredAtRcd ==
    /\ state = IN_PORT
    /\ emitted = << VisitEvent(Nearest(rcd.location), rcd.timestamp, "PORT_ENTRY") >>

\* C7 as stated: for a vessel AT_SEA, a record exactly at the entry distance
\* of its nearest anchorage emits PORT_ENTRY and moves the vessel IN_PORT.
C7_EntryInclusive ==
    (pipeline = "anchorages.port_visits" /\ Handled) =>
        ((prev.state = AT_SEA /\ NearestDist(rcd) = port_entry_dist) => EnteredAtRcd)

\* C7 amended: the entry threshold is exclusive.  For a vessel AT_SEA a
\* record strictly within the entry distance emits PORT_ENTRY for the
\* nearest anchorage and moves the vessel IN_PORT; a record exactly at the
\* entry distance emits nothing and leaves it AT_SEA.
C7_EntryExclusive ==
    (pipeline = "anchorages.port_visits" /\ Handled /\ prev.state = AT_SEA) =>
        /\ NearestDist(rcd) < port_entry_dist => EnteredAtRcd
        /\ NearestDist(rcd) = port_entry_dist => (state = AT_SEA /\ emitted = << >>)

\* A vessel AT_SEA has met a record exactly at the entry distance.
C7_Witness ==
    /\ pipeline = "anchorages.port_visits"
    /\ Handled
    /\ prev.state = AT_SEA
    /\ NearestDist(rcd) = port_entry_dist

(***************************************************************************)
(* C8                                                                      *)
(***************************************************************************)
\* C8 as stated: a PORT_EXIT carries the anchorage of the PORT_ENTRY of its
\* visit, current_port does not change while the vessel stays in port, and
\* it is cleared after the PORT_EXIT.
C8_ExitNamesEntryAnchorage ==
    pipeline = "anchorages.port_visits" =>
        /\ \A i \in 2 .. Len(events) :
              (IsType(events[i], "PORT_EXIT") /\ IsType(events[i - 1], "PORT_ENTRY")) =>
                  events[i].anchorage_id = events[i - 1].anchorage_id
        /\ ( /\ prev.state = IN_PORT
              /\ state = IN_PORT
              /\ events # << >>
              /\ IsType(events[Len(events)], "PORT_ENTRY") ) =>
              current_port = prev.current_port
        /\ EmittedType("PORT_EXIT") => current_port = None

\* C8 amended: a PORT_EXIT names current_port, which every record within
\* the entry distance overwrites with its nearest anchorage and no other
\* record changes; so the PORT_EXIT carries the anchorage of the last such
\* record, which need not be that of the PORT_ENTRY.  After the PORT_EXIT
\* current_port is cleared.
C8_ExitNamesLastInPortAnchorage ==
    (pipeline = "anchorages.port_visits" /\ Handled) =>
        /\ EmittedType("PORT_EXIT") =>
              /\ emitted = << VisitEvent(prev.current_port, rcd.timestamp, "PORT_EXIT") >>
              /\ prev.current_port \in Anchorages
              /\ current_port = None
        /\ (state = IN_PORT /\ Zone(rcd) = "in") => current_port = Nearest(rcd.location)
        /\ (state = IN_PORT /\ Zone(rcd) # "in") => current_port = prev.current_port

\* A visit entered at one anchorage was left at the other.
C8_Witness ==
    /\ pipeline = "anchorages.port_visits"
    /\ \E i \in 2 .. Len(events) :
          /\ IsType(events[i], "PORT_EXIT")
          /\ IsType(events[i - 1], "PORT_ENTRY")
          /\ events[i].anchorage_id # events[i - 1].anchorage_id

(***************************************************************************)
(* C2                                                                      *)
(***************************************************************************)
\* The events emitted for the vessel, by either state machine.
Emitted == IF pipeline = "port_events" THEN stream ELSE events

\* The events emitted for records before the last one.
EmittedBefore == SubSeq(stream, 1, Len(stream) - Len(emitted))

\* C2 as stated: the emitted events are strictly monotonic in timestamp,
\* PORT_GAP_BEGIN and PORT_STOP_END stamped with last_timestamp included:
\* an event's timestamp is later than that of every event emitted before it.
C2_StrictlyMonotonic ==
    \A i, j \in 1 .. Len(Emitted) :
        i < j => Emitted[i].timestamp < Emitted[j].timestamp

\* C2 amended: find_in_out_events emits events of strictly increasing
\* timestamp.  The state machine of section 4.6 stamps each event of a
\* record with last_timestamp or with the record's timestamp, so that no
\* event is earlier than an event of an earlier record, but a
\* PORT_GAP_BEGIN or PORT_STOP_END shares its timestamp with the events of
\* the record before, and a PORT_STOP_END at last_timestamp is emitted
\* after the PORT_GAP_END at the record's timestamp.
C2_MonotonicAcrossRecords ==
    /\ pipeline = "anchorages.port_visits" =>
          \A i, j \in 1 .. Len(events) :
              i < j => events[i].timestamp < events[j].timestamp
    /\ (pipeline = "port_events" /\ Handled) =>
          /\ \A i \in 1 .. Len(emitted) :
                \/ emitted[i].timestamp = rcd.timestamp
                \/ /\ emitted[i].timestamp = prev.last_timestamp
                   /\ emitted[i].event_type \in { "PORT_GAP_BEGIN", "PORT_STOP_END" }
          /\ prev.last_timestamp < rcd.timestamp
          /\ \A i \in 1 .. Len(EmittedBefore) :
                EmittedBefore[i].timestamp <= prev.last_timestamp

\* A stopped vessel comes back after a gap and beyond the exit distance:
\* the record emits the two gap events, PORT_STOP_END and PORT_EXIT, after
\* the PORT_STOP_BEGIN of the record before.
C2_Witness ==
    /\ pipeline = "port_events"
    /\ Len(emitted) = 4
    /\ IsType(emitted[1], "PORT_GAP_BEGIN")
    /\ IsType(emitted[3], "PORT_STOP_END")
    /\ emitted[3].timestamp < emitted[2].timestamp
    /\ EmittedBefore # << >>
    /\ EmittedBefore[Len(EmittedBefore)].timestamp = emitted[1].timestamp

(***************************************************************************)
(* C3                                                                      *)
(***************************************************************************)
\* The state the vessel was carried over in when the first run started.
FirstCarryOver == initial_states(stateTable, 1)

\* The first event after position i of seq whose type is in types (0 if
\* there is none), and the last one before it.
NextOf(seq, i, types) ==
    LET S == { j \in i + 1 .. Len(seq) : seq[j].event_type \in types }
    IN  IF S = {} THEN 0 ELSE MinOf(S)

LastOf(seq, i, types) ==
    LET S == { j \in 1 .. i - 1 : seq[j].event_type \in types }
    IN  IF S = {} THEN 0 ELSE MaxOf(S)

\* Whether position i of seq lies in an open PORT_ENTRY .. PORT_EXIT visit.
InOpenVisit(seq, i) ==
    LET k == LastOf(seq, i, { "PORT_ENTRY", "PORT_EXIT" })
    IN  IF k = 0 THEN FirstCarryOver.state \in InPortStates
                 ELSE IsType(seq[k], "PORT_ENTRY")

\* The event of type b at position i is followed by an event of type e
\* before another of type b, and before the next PORT_EXIT if there is one.
BeginMatched(seq, i, b, e) ==
    LET j == NextOf(seq, i, { b, e })
        x == NextOf(seq, i, { "PORT_EXIT" })
    IN  /\ j # 0 => IsType(seq[j], e)
        /\ x # 0 => (j # 0 /\ j < x)

\* Every *_BEGIN of seq lies in an open visit and has exactly one *_END
\* before the next PORT_EXIT.
BeginsMatched(seq) ==
    \A i \in 1 .. Len(seq) :
        /\ IsType(seq[i], "PORT_STOP_BEGIN") =>
              (InOpenVisit(seq, i) /\ BeginMatched(seq, i, "PORT_STOP_BEGIN", "PORT_STOP_END"))
        /\ IsType(seq[i], "PORT_GAP_BEGIN") =>
              (InOpenVisit(seq, i) /\ BeginMatched(seq, i, "PORT_GAP_BEGIN", "PORT_GAP_END"))

\* The events of the vessel in the output of the daily runs so far.
RECURSIVE Written(_)
Written(d) ==
    IF d = 0 THEN << >>
    ELSE Written(d - 1)
         \o (IF d = start_date /\ pc = "running" THEN events ELSE eventTable[d])

\* C3 as stated: in the vessel's event stream every PORT_STOP_BEGIN and
\* PORT_GAP_BEGIN has exactly one matching *_END before the next PORT_EXIT
\* and no *_BEGIN lies outside an open visit.  The stream is the one the
\* runs output.
C3_WrittenBeginsMatched ==
    pipeline = "port_events" => BeginsMatched(Written(MaxDate + 1))

\* C3 amended: the property holds of the events the state machine emits
\* over consecutive daily runs, before the filter on the run's dates; a
\* vessel that leaves while STOPPED emits PORT_STOP_END just before
\* PORT_EXIT.  (The filter drops a PORT_STOP_END stamped with a
\* last_timestamp of the day before start_date, so the output of the daily
\* runs may hold a PORT_STOP_BEGIN with no PORT_STOP_END before PORT_EXIT.)
C3_EmittedBeginsMatched ==
    pipeline = "port_events" =>
        /\ BeginsMatched(stream)
        /\ \A i \in 1 .. Len(emitted) :
              (IsType(emitted[i], "PORT_EXIT") /\ prev.state = STOPPED) =>
                  /\ i > 1
                  /\ IsType(emitted[i - 1], "PORT_STOP_END")
                  /\ emitted[i - 1].timestamp = prev.last_timestamp

\* A vessel that stopped on one day leaves with the first record of the
\* next day: the run emits PORT_STOP_END and PORT_EXIT, and outputs only
\* the PORT_EXIT.
C3_Witness ==
    /\ pipeline = "port_events"
    /\ pc = "running"
    /\ prev.state = STOPPED
    /\ EmittedType("PORT_STOP_END")
    /\ EmittedType("PORT_EXIT")
    /\ \E i \in 1 .. Len(stream) :
          IsType(stream[i], "PORT_STOP_BEGIN") /\ DateOf(stream[i].timestamp) = start_date - 1
    /\ Len(events) = 1

(***************************************************************************)
(* C4                                                                      *)
(***************************************************************************)
\* The events of the reference run whose timestamps fall in date d.
RefEventsOn(d) == SelectSeq(ref_out, LAMBDA e : DateOf(e.timestamp) = d)

\* C4: the run over [D, D] that starts from the state carried over from
\* D - 1 outputs exactly the events of day D of the run over [D0, D],
\* D0 < D, that reads the same records.
C4_BatchIdempotence ==
    (pipeline = "port_events" /\ pc \in { "running", "done" } /\ ref_start < start_date) =>
        events = RefEventsOn(start_date)

\* The run of the second day has output events, and the reference run has
\* output events of both days, one of them stamped with a last_timestamp of
\* the first day by a record of the second.
C4_Witness ==
    /\ pipeline = "port_events"
    /\ pc = "done"
    /\ ref_start < start_date
    /\ Len(events) >= 2
    /\ RefEventsOn(start_date - 1) # << >>
    /\ \E i \in 1 .. Len(stream) :
          /\ IsType(stream[i], "PORT_GAP_BEGIN")
          /\ DateOf(stream[i].timestamp) = start_date - 1

(***************************************************************************)
(* C9                                                                      *)
(***************************************************************************)
\* Whether the last record came a gap after last_timestamp, in port.
GapBefore ==
    /\ prev.state \in { IN_PORT, STOPPED }
    /\ rcd.timestamp - prev.last_timestamp >= min_gap

GapEventsEmitted ==
    { i \in 1 .. Len(emitted) :
        emitted[i].event_type \in { "PORT_GAP_BEGIN", "PORT_GAP_END" } }

\* C9: a record that comes at least the minimum gap after last_timestamp
\* while the vessel is IN_PORT or STOPPED emits exactly one PORT_GAP_BEGIN
\* at last_timestamp and one PORT_GAP_END at its own timestamp, both for
\* the active anchorage; any other record emits no gap event.  The
\* last_timestamp is the timestamp of the vessel's record before, carried
\* over from the day before where needed.
C9_GapEvents ==
    (pipeline = "port_events" /\ Handled) =>
        /\ GapBefore =>
              /\ Cardinality(GapEventsEmitted) = 2
              /\ emitted[1] = PortEvent(prev.current_port, prev.last_timestamp,
                                        "PORT_GAP_BEGIN", prev.last_timestamp)
              /\ emitted[2] = PortEvent(prev.current_port, rcd.timestamp,
                                        "PORT_GAP_END", prev.last_timestamp)
              /\ prev.current_port # None
        /\ ~GapBefore => GapEventsEmitted = {}
        /\ pc = "running" => vs.last_timestamp = rcd.timestamp

\* The first record of a day comes exactly the minimum gap after the last
\* record of the day before, which left the vessel stopped at A, and lies
\* nearer to B.
C9_Witness ==
    /\ pipeline = "port_events"
    /\ Handled
    /\ prev.state = STOPPED
    /\ prev.current_port = "A"
    /\ rcd.timestamp - prev.last_timestamp = min_gap
    /\ DateOf(prev.last_timestamp) < DateOf(rcd.timestamp)
    /\ Nearest(rcd.location) = "B"
    /\ Cardinality(GapEventsEmitted) = 2

(***************************************************************************)
(* C10                                                                     *)
(***************************************************************************)
\* The vessel's events of the run's dates, sorted by timestamp.
Sorted == SortEvents(events)

\* The PORT_ENTRY events that open a visit that a PORT_EXIT closes: no
\* PORT_ENTRY lies between the PORT_EXIT before (or the start) and them.
ClosedEntries ==
    { i \in 1 .. Len(Sorted) :
        /\ IsType(Sorted[i], "PORT_ENTRY")
        /\ LastOf(Sorted, i, { "PORT_ENTRY", "PORT_EXIT" }) # 0 =>
              IsType(Sorted[LastOf(Sorted, i, { "PORT_ENTRY", "PORT_EXIT" })], "PORT_EXIT")
        /\ NextOf(Sorted, i, { "PORT_EXIT" }) # 0 }

\* C10: there is one PortVisit per PORT_ENTRY that a later PORT_EXIT closes,
\* in order; its events are the sorted events from that PORT_ENTRY to the
\* first PORT_EXIT after it; a PORT_ENTRY with no PORT_EXIT after it is in
\* no PortVisit.
C10_VisitsAreClosedPairs ==
    pipeline = "port_visits" =>
        /\ Len(visits) = Cardinality(ClosedEntries)
        /\ \A k \in 1 .. Len(visits) :
              \E i \in ClosedEntries :
                  /\ Cardinality({ j \in ClosedEntries : j <= i }) = k
                  /\ visits[k].events = SubSeq(Sorted, i, NextOf(Sorted, i, { "PORT_EXIT" }))
                  /\ visits[k].start_timestamp = Sorted[i].timestamp
                  /\ visits[k].end_timestamp =
                         Sorted[NextOf(Sorted, i, { "PORT_EXIT" })].timestamp
        /\ \A i \in 1 .. Len(Sorted) :
              (IsType(Sorted[i], "PORT_ENTRY") /\ NextOf(Sorted, i, { "PORT_EXIT" }) = 0) =>
                  \A k \in 1 .. Len(visits) :
                      \A j \in 1 .. Len(visits[k].events) : visits[k].events[j] # Sorted[i]

\* A vessel makes a visit with a gap and enters again: one PortVisit, of
\* the events up to the PORT_EXIT, and a PORT_ENTRY left open.
C10_Witness ==
    /\ pipeline = "port_visits"
    /\ Len(visits) = 1
    /\ Len(visits[1].events) >= 3
    /\ Len(Sorted) > Len(visits[1].events)
    /\ IsType(Sorted[Len(Sorted)], "PORT_ENTRY")

(***************************************************************************)
(* C11                                                                     *)
(***************************************************************************)
\* The closed candidates that were turned into a StationaryPeriod.
PeriodCandidates == SelectSeq(candidates, LAMBDA c : c.is_period)

\* C11: every StationaryPeriod has a duration of at least
\* stationary_period_min_duration, and every record of the candidate it
\* summarises lies within stationary_period_max_distance of the candidate's
\* first record.
C11_PeriodsLongAndWithinRadius ==
    pipeline = "anchorages.common" =>
        /\ Len(stationary_periods) = Len(PeriodCandidates)
        /\ \A k \in 1 .. Len(stationary_periods) :
              LET sp == stationary_periods[k]
                  c == PeriodCandidates[k].records
              IN  /\ sp.duration >= stationary_period_min_duration
                  /\ sp.start_time = c[1].timestamp
                  /\ sp.duration = Span(c)
                  /\ sp.num_points = Len(c)
                  /\ \A i \in 1 .. Len(c) :
                        location_distance(c[i].location, c[1].location)
                            <= stationary_period_max_distance

\* A period of three records, one of them at the radius.
C11_Witness ==
    /\ pipeline = "anchorages.common"
    /\ Len(stationary_periods) = 1
    /\ stationary_periods[1].num_points = 3
    /\ \E i \in 1 .. 3 :
          location_distance(PeriodCandidates[1].records[i].location,
                            PeriodCandidates[1].records[1].location)
              = stationary_period_max_distance

(***************************************************************************)
(* C12                                                                     *)
(***************************************************************************)
\* C12 as stated: a candidate closed by a record beyond the radius is
\* turned into a StationaryPeriod if its span is at least
\* stationary_period_min_duration, a span equal to it included.
C12_PeriodIfSpanAtLeastMin ==
    pipeline = "anchorages.common" =>
        \A k \in 1 .. Len(candidates) :
            Span(candidates[k].records) >= stationary_period_min_duration =>
                candidates[k].is_period

\* C12 amended: a candidate closed by a record beyond the radius is turned
\* into a StationaryPeriod iff its span is strictly greater than
\* stationary_period_min_duration; a span equal to it emits no period and
\* the candidate stays in the trajectory.
C12_PeriodIffSpanOverMin ==
    pipeline = "anchorages.common" =>
        \A k \in 1 .. Len(candidates) :
            candidates[k].is_period <=>
                Span(candidates[k].records) > stationary_period_min_duration

\* A candidate of three records whose span equals the minimum duration was
\* closed by a record beyond the radius and stays in the trajectory.
C12_Witness ==
    /\ pipeline = "anchorages.common"
    /\ Len(candidates) = 1
    /\ Len(candidates[1].records) = 3
    /\ Span(candidates[1].records) = stationary_period_min_duration
    /\ ~candidates[1].is_period
    /\ without_stationary_periods = candidates[1].records

(***************************************************************************)
(* C13                                                                     *)
(***************************************************************************)
\* What a closed candidate leaves in the trajectory, by the claim: its
\* first and last records if it became a period, all its records if not.
Remains(c) ==
    IF c.is_period
    THEN (IF Len(c.records) > 1 THEN << c.records[1], c.records[Len(c.records)] >>
                                ELSE c.records)
    ELSE c.records

RECURSIVE RemainsOfAll(_)
RemainsOfAll(cs) ==
    IF cs = << >> THEN << >>
    ELSE RemainsOfAll(SubSeq(cs, 1, Len(cs) - 1)) \o Remains(cs[Len(cs)])

\* Whether sub is seq with some of its elements left out.
RECURSIVE IsSubsequence(_, _)
IsSubsequence(sub, seq) ==
    IF sub = << >> THEN TRUE
    ELSE IF seq = << >> THEN FALSE
    ELSE IF sub[1] = seq[1] THEN IsSubsequence(Tail(sub), Tail(seq))
    ELSE IsSubsequence(sub, Tail(seq))

\* C13: the output trajectory is a subsequence of the input records; of a
\* candidate closed into a StationaryPeriod exactly the first and the last
\* record remain, and every record of a candidate not closed into a period
\* remains, the residual candidate at the end included.
C13_TrajectoryIsSubsequence ==
    pipeline = "anchorages.common" =>
        /\ IsSubsequence(without_stationary_periods, track)
        /\ without_stationary_periods =
              RemainsOfAll(candidates) \o (IF exhausted THEN current_period ELSE << >>)

\* A period of three records was reduced to two, after a candidate that
\* was kept, and the function has returned.
C13_Witness ==
    /\ pipeline = "anchorages.common"
    /\ exhausted
    /\ Len(candidates) = 2
    /\ ~candidates[1].is_period
    /\ candidates[2].is_period
    /\ Len(candidates[2].records) = 3
    /\ Len(without_stationary_periods) = Len(track) - 1

Deduped == path_stage \in { "deduped", "long_enough", "dropped", "thinned" }

\* The positions of seq that hold the record x.
PositionsOf(seq, x) == { i \in 1 .. Len(seq) : seq[i] = x }

\* C15: after dedup_by_timestamp no two records share a timestamp; of the
\* records that share a timestamp the first in input order is the one kept
\* (first in the list dedup reads, and so, the sort being stable, first as
\* grouped); the kept records stay in their input order.
C15_DedupKeepsFirst ==
    Deduped =>
        /\ \A i, j \in 1 .. Len(deduped) :
              i # j => deduped[i].timestamp # deduped[j].timestamp
        /\ \A i \in 1 .. Len(ordered) :
              (\E k \in 1 .. Len(deduped) : deduped[k] = ordered[i])
                  <=> (\A j \in 1 .. i - 1 : ordered[j].timestamp # ordered[i].timestamp)
        /\ \A k \in 1 .. Len(deduped) :
              \A g \in 1 .. Len(grouped) :
                  grouped[g].timestamp = deduped[k].timestamp => deduped[k].id <= grouped[g].id
        /\ IsSubsequence(deduped, ordered)

\* Three records share a timestamp and were grouped after a later record:
\* the first of them as grouped is kept.
C15_Witness ==
    /\ Deduped
    /\ Len(grouped) = 4
    /\ Len(deduped) = 2
    /\ grouped[1].timestamp > grouped[2].timestamp
    /\ grouped[2].timestamp = grouped[3].timestamp
    /\ grouped[3].timestamp = grouped[4].timestamp
    /\ deduped[1] = grouped[2]

(***************************************************************************)
(* C16                                                                     *)
(***************************************************************************)
\* The last record before position i of deduped that thinning kept.
LastKeptBefore(i) ==
    MaxOf({ j \in 1 .. i - 1 : PositionsOf(thinned, deduped[j]) # {} })

\* C16: after thinning a timestamp-sorted list any two consecutive kept
\* records differ by at least five minutes; the first record is kept and a
\* later one iff it comes at least five minutes after the last kept record;
\* thin_points returns the same records as CreateTaggedPaths.thin_records.
C16_ThinnedFiveMinutesApart ==
    /\ Deduped => thin_points(deduped) = thin_records(deduped)
    /\ path_stage = "thinned" =>
        /\ \A k \in 1 .. Len(thinned) - 1 :
              thinned[k + 1].timestamp - thinned[k].timestamp >= FIVE_MINUTES
        /\ IsSubsequence(thinned, deduped)
        /\ thinned[1] = deduped[1]
        /\ \A i \in 2 .. Len(deduped) :
              PositionsOf(thinned, deduped[i]) # {}
                  <=> deduped[i].timestamp - deduped[LastKeptBefore(i)].timestamp
                          >= FIVE_MINUTES
        /\ thin_points(deduped) = thinned

\* Of four records the second is under five minutes after the first, the
\* third exactly five minutes after it, the fourth under five minutes after
\* the third: the first and the third are kept.
C16_Witness ==
    /\ path_stage = "thinned"
    /\ Len(deduped) = 4
    /\ deduped[3].timestamp - deduped[1].timestamp = FIVE_MINUTES
    /\ thinned = << deduped[1], deduped[3] >>

(***************************************************************************)
(* C17                                                                     *)
(***************************************************************************)
\* C17: the vessel is dropped iff fewer than min_required_positions records
\* remain after dedup; the filter runs after dedup and before thinning, and
\* a vessel that passed it is thinned and stays, however few records
\* thinning leaves.
C17_DroppedIffShortAfterDedup ==
    /\ path_stage = "dropped" => Len(deduped) < min_required_positions
    /\ path_stage \in { "long_enough", "thinned" } =>
          Len(deduped) >= min_required_positions
    /\ path_stage \in { "long_enough", "dropped" } => thinned = << >>
    /\ path_stage = "thinned" => thinned = thin_records(deduped)

\* A vessel of exactly min_required_positions records after dedup (and more
\* before) passed the filter, and thinning left fewer.
C17_Witness ==
    /\ path_stage = "thinned"
    /\ Len(grouped) > min_required_positions
    /\ Len(deduped) = min_required_positions
    /\ Len(thinned) < min_required_positions

(***************************************************************************)
(* C18                                                                     *)
(***************************************************************************)
\* The positions of the location records among the records read.
LocationPositions == { i \in 1 .. Len(tag_input) : tag_input[i].kind = "location" }

\* The position of the k-th location record.
KthLocation(k) ==
    CHOOSE i \in LocationPositions :
        Cardinality({ j \in LocationPositions : j <= i }) = k

\* The destination of the last info record before position i ("" if none).
DestinationBefore(i) ==
    LET infos == { j \in 1 .. i - 1 : tag_input[j].kind = "info" }
    IN  IF infos = {} THEN "" ELSE tag_input[MaxOf(infos)].destination

\* C18: there is one TaggedRecord per location record, in input order, and
\* none for an info record; each carries the destination of the most
\* recent info record before it, the empty string when there is none.
C18_TaggedWithLastDestination ==
    /\ Len(new_records) = Cardinality(LocationPositions)
    /\ \A k \in 1 .. Len(new_records) :
          /\ new_records[k].id = tag_input[KthLocation(k)].id
          /\ new_records[k].location = tag_input[KthLocation(k)].location
          /\ new_records[k].s2id = S2_cell_ID(tag_input[KthLocation(k)].location)
          /\ new_records[k].destination = DestinationBefore(KthLocation(k))

\* A location record before any info record, and one after two info
\* records of different destinations.
C18_Witness ==
    /\ Len(tag_input) = 4
    /\ tag_input[1].kind = "location"
    /\ tag_input[2].kind = "info"
    /\ tag_input[3].kind = "info"
    /\ tag_input[2].destination # tag_input[3].destination
    /\ tag_input[3].destination # ""
    /\ Len(new_records) = 2
    /\ new_records[2].destination = tag_input[3].destination

(***************************************************************************)
(* C19                                                                     *)
(***************************************************************************)
\* C19 as stated: is_new_id of a TaggedRecord is true exactly when the
\* record's fine cell differs from the fine cell of the location record
\* just before it.
C19_IsNewIdIffCellDiffers ==
    \A k \in 2 .. Len(new_records) :
        new_records[k].is_new_id <=> (new_records[k].s2id # new_records[k - 1].s2id)

(***************************************************************************)
(* C20                                                                     *)
(***************************************************************************)
\* C20: the cell is emitted as an AnchoragePoint iff the number of distinct
\* vessels among its stationary entries is at least
\* min_unique_vessels_for_anchorage; a cell with active points only is
\* never emitted; total_visits of the emitted point is the number of its
\* stationary entries.
C20_EmittedIffEnoughVessels ==
    cell_stage = "filtered" =>
        /\ anchorage_points # << >> <=>
              Cardinality(MdsOf(stationary_periods_by_s2id))
                  >= min_unique_vessels_for_anchorage
        /\ stationary_periods_by_s2id = << >> => anchorage_points = << >>
        /\ Len(anchorage_points) <= 1
        /\ \A k \in 1 .. Len(anchorage_points) :
              /\ anchorage_points[k].total_visits = Len(stationary_periods_by_s2id)
              /\ anchorage_points[k].vessels = MdsOf(stationary_periods_by_s2id)

\* A cell with three stationary periods of two vessels, and active points
\* of the third vessel, is emitted with three visits.
C20_Witness ==
    /\ cell_stage = "filtered"
    /\ Len(stationary_periods_by_s2id) = 3
    /\ Cardinality(MdsOf(stationary_periods_by_s2id)) = min_unique_vessels_for_anchorage
    /\ active_points_by_s2id \cap MdsOf(stationary_periods_by_s2id) = {}
    /\ active_points_by_s2id # {}
    /\ Len(anchorage_points) = 1
    /\ anchorage_points[1].total_visits = 3

(***************************************************************************)
(* C21                                                                     *)
(***************************************************************************)
\* The AnchoragePoints of the cell's entries in the order they were
\* produced upstream.
ReferencePoints == AnchoragePts_from_value(cell_visits, dict_order)

\* No two normalized destinations of the cell are equally frequent.
NoTiedDestinations ==
    LET names == normalized_valid_names(cell_visits.stationary_periods)
    IN  \A i, j \in 1 .. Len(names) :
           names[i] # names[j] => CountOf(names, names[i]) # CountOf(names, names[j])

\* The durations of the cell add up without rounding, in any order.
RECURSIVE SumOfDurations(_)
SumOfDurations(sps) ==
    IF sps = << >> THEN 0 ELSE sps[1].duration + SumOfDurations(Tail(sps))

ExactDays == SumOfDurations(cell_visits.stationary_periods) <= Pow2(MantissaBits)

\* C21 as stated: AnchoragePts_from_cell_visits returns the same
\* AnchoragePoint (vessel sets, counts, vessel-days, top_destinations) for
\* every order of the cell's stationary entries and active points.
C21_SameForEveryOrder ==
    aggregate_stage = "created" => aggregated = ReferencePoints

\* C21: in every order of the entries the vessel sets and the counts are
\* the same; top_destinations is the same when no two destinations are
\* equally frequent, and the vessel-days are the same when the durations
\* add up without rounding.
C21_SameSetsAndCounts ==
    aggregate_stage = "created" =>
        /\ Len(aggregated) = Len(ReferencePoints)
        /\ \A k \in 1 .. Len(aggregated) :
              LET x == aggregated[k]
                  y == ReferencePoints[k]
              IN  /\ x.total_visits = y.total_visits
                  /\ x.vessels = y.vessels
                  /\ x.fishing_vessels = y.fishing_vessels
                  /\ x.active_mmsi = y.active_mmsi
                  /\ x.total_mmsi = y.total_mmsi
                  /\ x.active_mmsi_days = y.active_mmsi_days
                  /\ NoTiedDestinations => x.top_destinations = y.top_destinations
                  /\ ExactDays =>
                        /\ x.stationary_mmsi_days = y.stationary_mmsi_days
                        /\ x.stationary_fishing_mmsi_days = y.stationary_fishing_mmsi_days

\* Three stationary periods, two to Singapore and one to Hong Kong, and two
\* active points are delivered in another order and give the same point.
C21_Witness ==
    /\ aggregate_stage = "created"
    /\ Len(value.stationary_periods) = 3
    /\ value.stationary_periods[1].destination = "HONG KONG"
    /\ value.stationary_periods # cell_visits.stationary_periods
    /\ value.active_points # cell_visits.active_points
    /\ dict_order = "insertion"
    /\ NoTiedDestinations
    /\ Len(aggregated) = 1
    /\ aggregated[1].top_destinations = << << "SINGAPORE", 2 >> >>
    /\ aggregated = ReferencePoints

(***************************************************************************)
(* C22                                                                     *)
(***************************************************************************)
\* The coarse cells of the patch and of the ring around it.
CoarseCells ==
    { CellId(VISITS_S2_SCALE, a * get_size_ij(VISITS_S2_SCALE),
             b * get_size_ij(VISITS_S2_SCALE)) :
        a \in -1 .. PatchSide, b \in -1 .. PatchSide }

\* The coarse cell of a vessel point or of an anchorage point.
CoarseCellOf(s2id) == parent(from_token(s2id), VISITS_S2_SCALE)

Abs(n) == IF n < 0 THEN 0 - n ELSE n

\* Two different cells of one level whose boundaries meet.
Adjacent(c, d) ==
    /\ c # d
    /\ Abs(c.i - d.i) <= get_size_ij(c.level)
    /\ Abs(c.j - d.j) <= get_size_ij(c.level)

\* The entries of the tagger's output for one cell and one anchorage point.
EntriesFor(cell, apt) ==
    { k \in 1 .. Len(tagged_apts) : tagged_apts[k] = << to_token(cell), apt >> }

\* What a vessel point finds by looking up one coarse cell.
AnchoragesIn(cell) ==
    { tagged_apts[k][2] : k \in { n \in 1 .. Len(tagged_apts) :
                                     tagged_apts[n][1] = to_token(cell) } }

ValidPosition(m) ==
    /\ m.lat \in { << d >> : d \in -90 .. 90 }
    /\ m.lon \in { << d >> : d \in -180 .. 180 }
    /\ m.speed \in { << s >> : s \in 0 .. 1022 }

\* The tick a timestamp text names.
TickOf(text) == CHOOSE t \in { 1, 2 } : ToString(t) = text[1]

\* C23: every message gives one record: a location record if lat, lon and
\* speed are present and within range, else an info record if the
\* destination is not empty, else an invalid record; the record has the
\* timestamp of the message.
C23_ParserCases ==
    tagged_record # << >> =>
        LET m == msg[1]
            r == tagged_record[2]
        IN  /\ Len(tagged_record) = 2
            /\ tagged_record[1] = m.ident
            /\ r.timestamp.tick = TickOf(m.timestamp)
            /\ r.type = IF ValidPosition(m) THEN "VesselLocationRecord"
                        ELSE IF m.destination = "SINGAPORE" THEN "VesselInfoRecord"
                        ELSE "InvalidRecord"
            /\ r.type = "VesselLocationRecord" =>
                  r.location = << m.lat[1], m.lon[1] >> /\ r.speed = m.speed[1]
            /\ r.type = "VesselInfoRecord" => r.destination = m.destination

\* A message with a latitude out of range and a destination becomes an
\* info record with the message's timestamp.
C23_Witness ==
    /\ tagged_record # << >>
    /\ msg[1].lat = << 91 >>
    /\ msg[1].lon = << -180 >>
    /\ msg[1].speed = << 0 >>
    /\ msg[1].destination = "SINGAPORE"
    /\ msg[1].timestamp = << "2", "UTC" >>
    /\ tagged_record[2].type = "VesselInfoRecord"
    /\ tagged_record[2].timestamp.tick = 2

(***************************************************************************)
(* C24                                                                     *)
(***************************************************************************)
\* C24: the run's initial states come from the state partition of
\* start_date - 1 day alone: with that partition they are its rows keyed by
\* seg_id; without it the run logs a warning and goes on with no initial
\* state; no other partition is read.
C24_CarryOverFromPreviousDay ==
    carry_pc = "read" =>
        LET part == state_table[run_start_date - 1]
        IN  IF part.exists
            THEN /\ initial_states_pc = { << r.seg_id, r >> : r \in part.rows }
                 /\ warnings = << >>
                 /\ tables_read = { run_start_date - 1 }
            ELSE /\ initial_states_pc = {}
                 /\ Len(warnings) = 1
                 /\ tables_read = {}

\* The run of date 2 finds no partition for date 1, though date 0 has one
\* with rows, warns and goes on with no initial state.
C24_Witness ==
    /\ carry_pc = "read"
    /\ run_start_date = 2
    /\ ~ state_table[1].exists
    /\ state_table[0].exists
    /\ Cardinality(state_table[0].rows) = 2
    /\ initial_states_pc = {}
    /\ Len(warnings) = 1

(***************************************************************************)
(* C25                                                                     *)
(***************************************************************************)
\* The rows of the batch for one date, each once.
EventRowsOn(d) ==
    { [timestamp |-> x.timestamp * SecondsPerTick, event_type |-> x.event_type] :
        x \in { y \in batch_events : DateOf(y.timestamp) = d } }

StateRowsOn(d) ==
    { [seg_id |-> x.seg_id, date |-> ToString(d), state |-> x.state] :
        x \in { y \in batch_states : y.date = d } }

\* The shard holds every row of S once and nothing else.
HoldsExactly(shard, S) ==
    /\ Len(shard) = Cardinality(S)
    /\ { shard[k] : k \in 1 .. Len(shard) } = S

C26_FailedJobExitsNonZero ==
    \A k \in 1 .. Len(job_states) :
        (job_states[k] \in { "FAILED", "CANCELLED" } /\ exit_statuses[k] # Null)
            => exit_statuses[k] # << 0 >>

(***************************************************************************)
(* C27                                                                     *)
(***************************************************************************)
\* C27: create-port-events of the run for date D never runs on an empty
\* carry-over while the run for D - 1 is created and has neither failed nor
\* succeeded (its tasks pending, running or up for retry).
C27_ReadsStateAfterPreviousRunWroteIt ==
    \A d \in RunDates :
        (d > 1 /\ TaskState(d, find_port_events) = "running" /\ carry_over[d] = "empty")
            => ~ RunActive(d - 1)

(***************************************************************************)
(* C28                                                                     *)
(***************************************************************************)
\* The anchorages read whose coarse cell is the coarse cell of the record
\* or one of its neighbors.
C28_Candidates(r) ==
    LET s2_cell_id == parent(from_token(r.s2id), VISITS_S2_SCALE)
        nbrs == get_all_neighbors(s2_cell_id, VISITS_S2_SCALE)
        cells == { to_token(s2_cell_id) } \cup { to_token(nbrs[n]) : n \in 1 .. Len(nbrs) }
    IN  { x \in port_input_data : VisitS2id(x) \in cells }

\* C28: for every record, when an anchorage of the record's coarse cell or
\* of a neighbor of it lies within the buffer distance, the port reported
\* is the one of those anchorages at minimum distance from the record.
C28_NearestOfAllCandidates ==
    lookup_pc = "done" =>
        \A k \in 1 .. Len(tagged_path[2]) :
            LET r == tagged_path[2][k]
                cands == C28_Candidates(r)
                reach == { x \in cands :
                             row_distance(r.s2id, x.s2id)
                                <= Max(port_entry_dist, port_exit_dist) }
            IN  reach # {} =>
                   \E x \in reach :
                      /\ \A y \in reach :
                            row_distance(r.s2id, x.s2id) <= row_distance(r.s2id, y.s2id)
                      /\ lookups[k].port = x.port_name
                      /\ lookups[k].dist = row_distance(r.s2id, x.s2id)

(***************************************************************************)
(* C29                                                                     *)
(***************************************************************************)
\* The windows yielded so far start at start_date, follow each other day
\* after day, and none reaches beyond end_date.
C29_Contiguous ==
    /\ \A k \in 1 .. Len(queries) :
          /\ queries[k].start <= queries[k].end
          /\ queries[k].end <= query_args.end_date
          /\ queries[k].start = IF k = 1 THEN query_args.start_date
                                         ELSE queries[k - 1].end + 1

\* Once the generator is exhausted the windows cover [start_date, end_date],
\* every date in exactly one window; there is none when start_date is after
\* end_date.
C29_Covers ==
    queries_pc = "done" =>
        /\ query_args.start_date > query_args.end_date => queries = << >>
        /\ query_args.start_date <= query_args.end_date =>
              /\ queries # << >>
              /\ queries[Len(queries)].end = query_args.end_date
        /\ \A d \in QueryDates :
              Cardinality({ k \in 1 .. Len(queries) :
                              queries[k].start <= d /\ d <= queries[k].end })
                 = IF query_args.start_date <= d /\ d <= query_args.end_date THEN 1 ELSE 0

\* C29: create_queries terminates for every start_date and end_date, and
\* its date windows partition [start_date, end_date]; it yields no query
\* when start_date is after end_date.
C29_TerminatesWithPartition ==
    /\ [](C29_Contiguous /\ C29_Covers)
    /\ <>(queries_pc = "done")

C29_Witness ==
    /\ queries_pc = "done"
    /\ Len(queries) >= 2
    /\ queries[1].start < queries[1].end

(***************************************************************************)
(* C30                                                                     *)
(***************************************************************************)
\* C30: in the output of find_in_out_events for one vessel a record
\* appends at most one event, no two consecutive events have the same type
\* (PORT_ENTRY and PORT_EXIT alternate), and a record between the entry and
\* the exit distance leaves the state and the current port as they were.
C30_OneEventAlternatingMidKeeps ==
    pipeline = "anchorages.port_visits" =>
        /\ Len(emitted) <= 1
        /\ \A i \in 1 .. Len(events) :
              /\ events[i].event_type \in { "PORT_ENTRY", "PORT_EXIT" }
              /\ i > 1 => events[i].event_type # events[i - 1].event_type
        /\ (Handled /\ Zone(rcd) = "mid") =>
              /\ emitted = << >>
              /\ state = prev.state
              /\ current_port = prev.current_port

\* An exit and an entry behind it, then a record between the thresholds
\* while in port.
C30_Witness ==
    /\ pipeline = "anchorages.port_visits"
    /\ Len(events) >= 2
    /\ events[1].event_type = "PORT_EXIT"
    /\ Handled
    /\ Zone(rcd) = "mid"
    /\ state = IN_PORT
    /\ current_port # None

====
